---- MODULE Spec2Model ----
(***************************************************************************)
(* poly-lexis: translation structure synchronisation and validation.       *)
(*                                                                         *)
(* The disk is a set of language directories and a function from the       *)
(* <<language, namespace>> of each existing file to its JSON object.  A    *)
(* JSON object is an insertion-ordered sequence of [key, value] entries,   *)
(* as Object.keys and JSON.stringify see it.  A value is a string, kept as its sequence of    *)
(* characters so that String.prototype.trim is computed, not assumed.      *)
(* Keys are ordinary own-property names (no key is the name of a member of *)
(* Object.prototype), so `obj[key] !== undefined` is key membership.       *)
(***************************************************************************)
EXTENDS Integers, Sequences, FiniteSets, TLC

VARIABLES dirs, files, call, prior, run, calc, registry, task

vars == <<dirs, files, call, prior, run, calc, registry, task>>

\* ------------------------------------------------------------------ bounds
\* The developer's edits keep the tree of translation files within this many
\* leaves (key entries, empty files, empty language directories).
MaxLeaves == 3

\* --------------------------------------------------------- configuration
\* .translationsrc.json of the test fixtures
languages == <<"en", "fr", "es">>
sourceLanguage == "en"

Namespaces == {"common", "test"}
\* fs.readdirSync lists a directory's entries in name order
ReaddirOrder == <<"common", "test">>

TranslationKeys == {"GOODBYE", "HELLO"}

Whitespace == {" ", "\t", "\n"}
SourceValues == {<<"H", "e", "l", "l", "o">>}
TargetValues == {<<>>, <<" ">>, <<"B", "o", "n", "j", "o", "u", "r">>}

Null == "null"

Range(s) == {s[i] : i \in 1..Len(s)}
Languages == Range(languages)

ValuesFor(language) ==
  IF language = sourceLanguage THEN SourceValues ELSE TargetValues

\* ------------------------------------------------------- JSON objects
\* Object.keys(file), in insertion order
ObjectKeys(file) == [i \in 1..Len(file) |-> file[i].key]

KeySet(file) == Range(ObjectKeys(file))

\* file[key] !== undefined
Defined(file, key) == key \in KeySet(file)

\* file[key], for a defined key
Get(file, key) == file[CHOOSE i \in 1..Len(file) : file[i].key = key].value

\* file[key] = value: an existing key keeps its place, a new key goes last
Put(file, key, value) ==
  IF Defined(file, key)
    THEN [i \in 1..Len(file) |->
            IF file[i].key = key THEN [key |-> key, value |-> value] ELSE file[i]]
    ELSE Append(file, [key |-> key, value |-> value])

\* String.prototype.trim
RECURSIVE TrimStart(_)
TrimStart(s) ==
  IF Len(s) > 0 /\ Head(s) \in Whitespace THEN TrimStart(Tail(s)) ELSE s

RECURSIVE TrimEnd(_)
TrimEnd(s) ==
  IF Len(s) > 0 /\ s[Len(s)] \in Whitespace
    THEN TrimEnd(SubSeq(s, 1, Len(s) - 1))
    ELSE s

\* Faulty variant: the value is compared without being trimmed
trim_Untrimmed(s) == s

trim(s) == TrimEnd(TrimStart(s))

\* ------------------------------------------------------------ file system
\* path.join(translationsPath, language, `${namespace}.json`), relative to
\* translationsPath
FilePath(language, namespace) == language \o "/" \o namespace \o ".json"

\* fs.existsSync(filePath)
existsSync(fs, language, namespace) ==
  language \in fs.dirs /\ <<language, namespace>> \in DOMAIN fs.files

readTranslations(fs, language) ==
  IF language \notin fs.dirs
    THEN <<>>
    ELSE [namespace \in {n \in Namespaces : <<language, n>> \in DOMAIN fs.files} |->
            fs.files[<<language, namespace>>]]

\* Both the directory creation and the file write of writeTranslation
writeTranslation(fs, language, namespace, translations) ==
  [dirs |-> fs.dirs \cup {language},
   files |-> [file \in DOMAIN fs.files \cup {<<language, namespace>>} |->
               IF file = <<language, namespace>> THEN translations
                                                 ELSE fs.files[file]]]

getNamespaces(fs, language) ==
  IF language \notin fs.dirs
    THEN <<>>
    ELSE SelectSeq(ReaddirOrder, LAMBDA n : <<language, n>> \in DOMAIN fs.files)

\* Faulty variant: only the target languages' directories are made
ensureTranslationsStructure_TargetsOnly(fs, langs) ==
  [fs EXCEPT !.dirs = fs.dirs \cup (Range(langs) \ {sourceLanguage})]

ensureTranslationsStructure(fs, langs) ==
  [fs EXCEPT !.dirs = fs.dirs \cup Range(langs)]

\* ---------------------------------------------------------------- sync
\* Faulty variant: the source values are copied instead of blanked
createEmptyTranslationStructure_CopiesValues(sourceFile) == sourceFile

createEmptyTranslationStructure(sourceFile) ==
  [i \in 1..Len(sourceFile) |-> [key |-> sourceFile[i].key, value |-> <<>>]]

EmptySyncResult ==
  [createdFolders |-> <<>>, createdFiles |-> <<>>,
   skippedFiles |-> <<>>, cleanedKeys |-> <<>>]

\* Faulty variant: an orphaned key is recorded but stays in the cleaned file
RECURSIVE KeepSourceKeys_KeepsOrphans(_, _, _, _, _, _)
KeepSourceKeys_KeepsOrphans(targetFile, sourceFile, language, namespace, i, acc) ==
  IF i > Len(targetFile) THEN acc
  ELSE LET key == targetFile[i].key
           kept == [acc EXCEPT !.cleanedFile = Put(@, key, Get(targetFile, key))]
       IN KeepSourceKeys_KeepsOrphans(targetFile, sourceFile, language, namespace, i + 1,
            IF Defined(sourceFile, key)
              THEN kept
              ELSE [kept EXCEPT
                      !.hasOrphanedKeys = TRUE,
                      !.cleanedKeys = Append(@, [language |-> language,
                                                 namespace |-> namespace,
                                                 key |-> key])])

\* Faulty variant: an orphaned key is dropped without being recorded
RECURSIVE KeepSourceKeys_Unrecorded(_, _, _, _, _, _)
KeepSourceKeys_Unrecorded(targetFile, sourceFile, language, namespace, i, acc) ==
  IF i > Len(targetFile) THEN acc
  ELSE LET key == targetFile[i].key
       IN KeepSourceKeys_Unrecorded(targetFile, sourceFile, language, namespace, i + 1,
            IF Defined(sourceFile, key)
              THEN [acc EXCEPT !.cleanedFile = Put(@, key, Get(targetFile, key))]
              ELSE [acc EXCEPT !.hasOrphanedKeys = TRUE])

\* Faulty variant: a kept key gets the source's value instead of the target's
RECURSIVE KeepSourceKeys_SourceValue(_, _, _, _, _, _)
KeepSourceKeys_SourceValue(targetFile, sourceFile, language, namespace, i, acc) ==
  IF i > Len(targetFile) THEN acc
  ELSE LET key == targetFile[i].key
       IN KeepSourceKeys_SourceValue(targetFile, sourceFile, language, namespace, i + 1,
            IF Defined(sourceFile, key)
              THEN [acc EXCEPT !.cleanedFile = Put(@, key, Get(sourceFile, key))]
              ELSE [acc EXCEPT
                      !.hasOrphanedKeys = TRUE,
                      !.cleanedKeys = Append(@, [language |-> language,
                                                 namespace |-> namespace,
                                                 key |-> key])])

\* for (const key of Object.keys(targetFile)): keep the keys of the source,
\* record the others.  acc = [cleanedFile, hasOrphanedKeys, cleanedKeys]
RECURSIVE KeepSourceKeys(_, _, _, _, _, _)
KeepSourceKeys(targetFile, sourceFile, language, namespace, i, acc) ==
  IF i > Len(targetFile) THEN acc
  ELSE LET key == targetFile[i].key
       IN KeepSourceKeys(targetFile, sourceFile, language, namespace, i + 1,
            IF Defined(sourceFile, key)
              THEN [acc EXCEPT !.cleanedFile = Put(@, key, Get(targetFile, key))]
              ELSE [acc EXCEPT
                      !.hasOrphanedKeys = TRUE,
                      !.cleanedKeys = Append(@, [language |-> language,
                                                 namespace |-> namespace,
                                                 key |-> key])])

\* for (const key of Object.keys(sourceFile)): add missing keys with ''
RECURSIVE AddMissingKeys(_, _, _)
AddMissingKeys(cleanedFile, sourceFile, i) ==
  IF i > Len(sourceFile) THEN cleanedFile
  ELSE LET key == sourceFile[i].key
       IN AddMissingKeys(
            IF ~Defined(cleanedFile, key) THEN Put(cleanedFile, key, <<>>)
                                          ELSE cleanedFile,
            sourceFile, i + 1)

\* Faulty variant: the cleaned file is written whether or not a key was orphaned
WriteCleaned_Always(st, language, namespace, hasOrphanedKeys, cleanedFile) ==
  [st EXCEPT
     !.fs = writeTranslation(@, language, namespace, cleanedFile),
     !.written = Append(@, <<language, namespace>>)]

\* if (hasOrphanedKeys) writeTranslation(..., cleanedFile)
WriteCleaned(st, language, namespace, hasOrphanedKeys, cleanedFile) ==
  IF hasOrphanedKeys
    THEN [st EXCEPT
            !.fs = writeTranslation(@, language, namespace, cleanedFile),
            !.written = Append(@, <<language, namespace>>)]
    ELSE st

\* The branch of an existing target file.  st = [fs, written, result]
SyncExistingFile(st, language, namespace, sourceFile, targetTranslations) ==
  LET targetFile == IF namespace \in DOMAIN targetTranslations
                      THEN targetTranslations[namespace] ELSE <<>>
      kept == KeepSourceKeys(targetFile, sourceFile, language, namespace, 1,
                [cleanedFile |-> <<>>, hasOrphanedKeys |-> FALSE,
                 cleanedKeys |-> st.result.cleanedKeys])
      cleanedFile == AddMissingKeys(kept.cleanedFile, sourceFile, 1)
      st1 == WriteCleaned(st, language, namespace, kept.hasOrphanedKeys, cleanedFile)
  IN [st1 EXCEPT
        !.result.cleanedKeys = kept.cleanedKeys,
        !.result.skippedFiles =
           Append(@, [language |-> language, namespace |-> namespace,
                      reason |-> IF kept.hasOrphanedKeys
                                   THEN "cleaned orphaned keys"
                                   ELSE "already exists"])]

\* Faulty variant: the created file is recorded but not written
SyncMissingFile_NotWritten(st, language, namespace, sourceFile) ==
  [st EXCEPT
     !.result.createdFiles =
        Append(@, [language |-> language, namespace |-> namespace,
                   path |-> FilePath(language, namespace)])]

\* The branch of a missing target file
SyncMissingFile(st, language, namespace, sourceFile) ==
  LET emptyStructure == createEmptyTranslationStructure(sourceFile)
  IN [st EXCEPT
        !.fs = writeTranslation(@, language, namespace, emptyStructure),
        !.written = Append(@, <<language, namespace>>),
        !.result.createdFiles =
           Append(@, [language |-> language, namespace |-> namespace,
                      path |-> FilePath(language, namespace)])]

\* One iteration of `for (const namespace of sourceNamespaces)`
SyncNamespace(st, language, namespace, sourceTranslations, targetTranslations) ==
  LET sourceFile == IF namespace \in DOMAIN sourceTranslations
                      THEN sourceTranslations[namespace] ELSE <<>>
  IN IF existsSync(st.fs, language, namespace)
       THEN SyncExistingFile(st, language, namespace, sourceFile, targetTranslations)
       ELSE SyncMissingFile(st, language, namespace, sourceFile)

RECURSIVE SyncNamespaces(_, _, _, _, _, _)
SyncNamespaces(st, language, sourceNamespaces, sourceTranslations, targetTranslations, j) ==
  IF j > Len(sourceNamespaces) THEN st
  ELSE SyncNamespaces(
         SyncNamespace(st, language, sourceNamespaces[j], sourceTranslations,
                       targetTranslations),
         language, sourceNamespaces, sourceTranslations, targetTranslations, j + 1)

\* for (const language of targetLanguages)
RECURSIVE SyncLanguages(_, _, _, _, _)
SyncLanguages(st, targetLanguages, sourceNamespaces, sourceTranslations, i) ==
  IF i > Len(targetLanguages) THEN st
  ELSE SyncLanguages(
         SyncNamespaces(st, targetLanguages[i], sourceNamespaces, sourceTranslations,
                        readTranslations(st.fs, targetLanguages[i]), 1),
         targetLanguages, sourceNamespaces, sourceTranslations, i + 1)

TargetLanguages(langs) == SelectSeq(langs, LAMBDA lang : lang # sourceLanguage)

\* Returns [fs, written, result]: the disk it leaves, the writeTranslation
\* calls it made, and its SyncResult
syncTranslationStructure(fs, langs) ==
  LET st == [fs |-> ensureTranslationsStructure(fs, langs),
             written |-> <<>>, result |-> EmptySyncResult]
      sourceNamespaces == getNamespaces(st.fs, sourceLanguage)
  IN IF Len(sourceNamespaces) = 0
       THEN st
       ELSE SyncLanguages(st, TargetLanguages(langs), sourceNamespaces,
                          readTranslations(st.fs, sourceLanguage), 1)

\* ------------------------------------------------------------ validate
\* for (const [key, sourceValue] of Object.entries(sourceKeys)):
\* lists = [missing, empty, orphaned]
RECURSIVE CheckSourceKeys(_, _, _, _, _, _)
CheckSourceKeys(lists, language, namespace, sourceKeys, targetKeys, i) ==
  IF i > Len(sourceKeys) THEN lists
  ELSE LET key == sourceKeys[i].key
           item == [namespace |-> namespace, key |-> key, language |-> language,
                    sourceValue |-> sourceKeys[i].value]
       IN CheckSourceKeys(
            IF ~Defined(targetKeys, key)
              THEN [lists EXCEPT !.missing = Append(@, item)]
            ELSE IF trim(Get(targetKeys, key)) = <<>>
              THEN [lists EXCEPT !.empty = Append(@, item)]
            ELSE lists,
            language, namespace, sourceKeys, targetKeys, i + 1)

\* for (const [key, targetValue] of Object.entries(targetKeys))
RECURSIVE CheckTargetKeys(_, _, _, _, _, _)
CheckTargetKeys(lists, language, namespace, sourceKeys, targetKeys, i) ==
  IF i > Len(targetKeys) THEN lists
  ELSE CheckTargetKeys(
         IF ~Defined(sourceKeys, targetKeys[i].key)
           THEN [lists EXCEPT !.orphaned =
                   Append(@, [namespace |-> namespace, key |-> targetKeys[i].key,
                              language |-> language, value |-> targetKeys[i].value])]
           ELSE lists,
         language, namespace, sourceKeys, targetKeys, i + 1)

\* for (const namespace of sourceNamespaces)
RECURSIVE ValidateNamespaces(_, _, _, _, _, _)
ValidateNamespaces(lists, language, sourceNamespaces, sourceTranslations, targetTranslations, j) ==
  IF j > Len(sourceNamespaces) THEN lists
  ELSE LET namespace == sourceNamespaces[j]
           sourceKeys == IF namespace \in DOMAIN sourceTranslations
                           THEN sourceTranslations[namespace] ELSE <<>>
           targetKeys == IF namespace \in DOMAIN targetTranslations
                           THEN targetTranslations[namespace] ELSE <<>>
       IN ValidateNamespaces(
            CheckTargetKeys(
              CheckSourceKeys(lists, language, namespace, sourceKeys, targetKeys, 1),
              language, namespace, sourceKeys, targetKeys, 1),
            language, sourceNamespaces, sourceTranslations, targetTranslations, j + 1)

\* for (const language of languages)
RECURSIVE ValidateLanguages(_, _, _, _, _, _)
ValidateLanguages(lists, fs, langs, sourceNamespaces, sourceTranslations, i) ==
  IF i > Len(langs) THEN lists
  ELSE ValidateLanguages(
         ValidateNamespaces(lists, langs[i], sourceNamespaces, sourceTranslations,
                            readTranslations(fs, langs[i]), 1),
         fs, langs, sourceNamespaces, sourceTranslations, i + 1)

\* Faulty variant: the diff is made without the sync
validateTranslations_Unsynced(fs, langs) ==
  LET sourceTranslations == readTranslations(fs, sourceLanguage)
      sourceNamespaces == getNamespaces(fs, sourceLanguage)
      lists == ValidateLanguages(
                 [missing |-> <<>>, empty |-> <<>>, orphaned |-> <<>>],
                 fs, TargetLanguages(langs), sourceNamespaces, sourceTranslations, 1)
  IN [fs |-> fs, written |-> <<>>, syncResult |-> EmptySyncResult,
      result |-> [valid |-> Len(lists.missing) = 0 /\ Len(lists.empty) = 0
                              /\ Len(lists.orphaned) = 0,
                  missing |-> lists.missing, empty |-> lists.empty,
                  orphaned |-> lists.orphaned]]

\* Faulty variant: the diff stops before the last target language
validateTranslations_LastLanguageSkipped(fs, langs) ==
  LET sourceTranslations == readTranslations(fs, sourceLanguage)
      sourceNamespaces == getNamespaces(fs, sourceLanguage)
      synced == syncTranslationStructure(fs, langs)
      targets == TargetLanguages(langs)
      lists == ValidateLanguages(
                 [missing |-> <<>>, empty |-> <<>>, orphaned |-> <<>>],
                 synced.fs, SubSeq(targets, 1, Len(targets) - 1), sourceNamespaces,
                 sourceTranslations, 1)
  IN [fs |-> synced.fs, written |-> synced.written, syncResult |-> synced.result,
      result |-> [valid |-> Len(lists.missing) = 0 /\ Len(lists.empty) = 0
                              /\ Len(lists.orphaned) = 0,
                  missing |-> lists.missing, empty |-> lists.empty,
                  orphaned |-> lists.orphaned]]

\* Returns [fs, written, syncResult, result]; the source is read before the
\* sync, the targets after it
validateTranslations(fs, langs) ==
  LET sourceTranslations == readTranslations(fs, sourceLanguage)
      sourceNamespaces == getNamespaces(fs, sourceLanguage)
      synced == syncTranslationStructure(fs, langs)
      lists == ValidateLanguages(
                 [missing |-> <<>>, empty |-> <<>>, orphaned |-> <<>>],
                 synced.fs, TargetLanguages(langs), sourceNamespaces,
                 sourceTranslations, 1)
  IN [fs |-> synced.fs, written |-> synced.written, syncResult |-> synced.result,
      result |-> [valid |-> Len(lists.missing) = 0 /\ Len(lists.empty) = 0
                              /\ Len(lists.orphaned) = 0,
                  missing |-> lists.missing, empty |-> lists.empty,
                  orphaned |-> lists.orphaned]]

\* ------------------------------------------------------------- the system
Disk == [dirs |-> dirs, files |-> files]

\* Leaves of the tree of translation files: key entries, empty files, empty
\* language directories
\* Leaves under the namespace files of one language
RECURSIVE FileLeaves(_, _, _)
FileLeaves(fs, language, namespaces) ==
  IF Len(namespaces) = 0 THEN 0
  ELSE LET file == fs.files[<<language, Head(namespaces)>>]
       IN (IF Len(file) = 0 THEN 1 ELSE Len(file))
            + FileLeaves(fs, language, Tail(namespaces))

\* Leaves under the directories of the languages
RECURSIVE DirLeaves(_, _)
DirLeaves(fs, langs) ==
  IF Len(langs) = 0 THEN 0
  ELSE (IF Head(langs) \notin fs.dirs THEN 0
        ELSE IF getNamespaces(fs, Head(langs)) = <<>> THEN 1
        ELSE FileLeaves(fs, Head(langs), getNamespaces(fs, Head(langs))))
         + DirLeaves(fs, Tail(langs))

Leaves(fs) == DirLeaves(fs, languages)

\* No call since the developer's last edit
NoCall == [op |-> "none"]

\* No auto-fill run has been started
NoRun == [pc |-> "idle"]

\* No pure function has been applied
NoCalc == [op |-> "none"]

\* No enclosing command (manageTranslations, addTranslationKey) is running
NoTask == [pc |-> "idle"]

\* A translation provider object: its class and who constructed it
Provider(class, by) == [class |-> class, by |-> by]

\* `let customProvider: TranslationProvider | null = null`
NoProvider == Provider("null", "null")

\* `const defaultProvider: TranslationProvider = new GoogleTranslateProvider()`
defaultProvider == Provider("GoogleTranslateProvider", "translator")

\* The provider registry of the translator module as loaded, and the `provider`
\* entry of .translationsrc.json
\* userSet remembers the provider the user handed to setTranslationProvider
\* and has not reset since
DefaultRegistry ==
  [customProvider |-> NoProvider, provider |-> "deepl", userSet |-> NoProvider]

setTranslationProvider(reg, provider) == [reg EXCEPT !.customProvider = provider]

\* return customProvider || defaultProvider
getTranslationProvider(reg) ==
  IF reg.customProvider # NoProvider THEN reg.customProvider ELSE defaultProvider

resetTranslationProvider(reg) == [reg EXCEPT !.customProvider = NoProvider]

\* autoFillTranslations: "Set up the translation provider based on config
\* (only if not already set by user)"
SelectProvider(reg) ==
  LET currentProvider == getTranslationProvider(reg)
      isDefaultGoogleProvider == currentProvider.class = "GoogleTranslateProvider"
      provider == IF reg.provider # Null THEN reg.provider ELSE "deepl"
  IN IF isDefaultGoogleProvider
       THEN IF provider = "deepl"
              THEN setTranslationProvider(reg, Provider("DeepLTranslateProvider",
                                                        "autoFillTranslations"))
              ELSE setTranslationProvider(reg, Provider("GoogleTranslateProvider",
                                                        "autoFillTranslations"))
       ELSE reg

Init ==
  /\ dirs = {}
  /\ files = <<>>
  /\ call = NoCall
  /\ prior = NoCall
  /\ run = NoRun
  /\ registry = DefaultRegistry
  /\ task = NoTask
  /\ calc = NoCalc

\* The developer creates a language directory
Mkdir(language) ==
  /\ language \notin dirs
  /\ Leaves(Disk) < MaxLeaves
  /\ dirs' = dirs \cup {language}
  /\ UNCHANGED files
  /\ call' = NoCall
  /\ prior' = NoCall
  /\ UNCHANGED <<run, calc, registry, task>>

\* The developer's edits go through writeTranslation, as the fixtures do
EditFile(language, namespace, translations) ==
  LET fs == writeTranslation(Disk, language, namespace, translations)
  IN /\ fs # Disk
     /\ Leaves(fs) <= MaxLeaves
     /\ dirs' = fs.dirs
     /\ files' = fs.files
     /\ call' = NoCall
     /\ prior' = NoCall
     /\ UNCHANGED <<run, calc, registry, task>>

\* A namespace file is created empty
CreateFile(language, namespace) ==
  /\ <<language, namespace>> \notin DOMAIN files
  /\ EditFile(language, namespace, <<>>)

\* A key of an existing namespace file is set
SetKey(language, namespace, key, value) ==
  /\ existsSync(Disk, language, namespace)
  /\ EditFile(language, namespace, Put(files[<<language, namespace>>], key, value))

\* `call` records the last call since the developer's last edit: the disk it
\* found (pre), the writeTranslation calls it made and what it returned.
\* `prior` keeps, of the call before it, which it was and whether it changed
\* the disk.
Summary(c) ==
  IF c.op = "none" THEN NoCall
  ELSE [op |-> c.op, acted |-> c.pre # Disk]

Sync ==
  LET r == syncTranslationStructure(Disk, languages)
  IN /\ dirs' = r.fs.dirs
     /\ files' = r.fs.files
     /\ call' = [op |-> "sync", pre |-> Disk, written |-> r.written,
                 syncResult |-> r.result, result |-> Null]
     /\ prior' = Summary(call)
     /\ UNCHANGED <<run, calc, registry, task>>

Validate ==
  LET r == validateTranslations(Disk, languages)
  IN /\ dirs' = r.fs.dirs
     /\ files' = r.fs.files
     /\ call' = [op |-> "validate", pre |-> Disk, written |-> r.written,
                 syncResult |-> r.syncResult, result |-> r.result]
     /\ prior' = Summary(call)
     /\ UNCHANGED <<run, calc, registry, task>>

Next ==
  \/ \E language \in Languages : Mkdir(language)
  \/ \E language \in Languages, namespace \in Namespaces :
       CreateFile(language, namespace)
  \/ \E language \in Languages, namespace \in Namespaces, key \in TranslationKeys :
       \E value \in ValuesFor(language) : SetKey(language, namespace, key, value)
  \/ Sync
  \/ Validate

Spec == Init /\ [][Next]_vars

\* ================================================================ claims
\* Vocabulary of the claims, over the last call and the disk it left
Targets == Range(TargetLanguages(languages))

\* The namespaces of the source language on disk fs
SourceNamespaces(fs) == Range(getNamespaces(fs, sourceLanguage))

SourceFile(fs, namespace) == fs.files[<<sourceLanguage, namespace>>]

\* How many elements of seq satisfy the test
Count(seq, Test(_)) == Cardinality({i \in 1..Len(seq) : Test(seq[i])})

\* The keys of target file (language, namespace) of fs that its source lacks
OrphanedKeys(fs, language, namespace) ==
  KeySet(fs.files[<<language, namespace>>]) \ KeySet(SourceFile(fs, namespace))

\* A string of whitespace only (the empty string included)
Blank(value) == \A i \in 1..Len(value) : value[i] \in Whitespace

\* C1: after sync, for every configured target language L and every source
\* namespace N, file (L,N) exists and its key set is exactly that of source N.
C1_TargetKeysEqualSourceKeys ==
  call.op = "sync" =>
    \A language \in Targets, namespace \in SourceNamespaces(call.pre) :
      /\ existsSync(Disk, language, namespace)
      /\ KeySet(files[<<language, namespace>>])
           = KeySet(SourceFile(call.pre, namespace))

\* C2: a sync that directly follows a sync reports no created file and no
\* cleaned key, and leaves the directories and every file as it found them.
C2_SecondSyncChangesNothing ==
  (call.op = "sync" /\ prior.op = "sync") =>
    /\ call.syncResult.createdFiles = <<>>
    /\ call.syncResult.cleanedKeys = <<>>
    /\ Disk = call.pre

C2_Witness ==
  /\ call.op = "sync"
  /\ prior.op = "sync"
  /\ prior.acted
  /\ \E file \in DOMAIN files : file[1] # sourceLanguage /\ Len(files[file]) > 0

\* C3: for every target file (L,N) that exists before sync, N a source
\* namespace, no key absent from source N is left in the file, and cleanedKeys
\* holds exactly one entry per such key and no other entry.
C3_CleanedKeysAreTheOrphans ==
  call.op = "sync" =>
    LET orphans ==
          {[language |-> language, namespace |-> namespace, key |-> key] :
             <<language, namespace, key>> \in
               {t \in Targets \X SourceNamespaces(call.pre) \X TranslationKeys :
                  /\ existsSync(call.pre, t[1], t[2])
                  /\ t[3] \in OrphanedKeys(call.pre, t[1], t[2])}}
    IN /\ \A o \in orphans :
            /\ ~Defined(files[<<o.language, o.namespace>>], o.key)
            /\ Count(call.syncResult.cleanedKeys, LAMBDA e : e = o) = 1
       /\ Range(call.syncResult.cleanedKeys) = orphans

C3_Witness ==
  /\ call.op = "sync"
  /\ Len(call.syncResult.cleanedKeys) >= 2
  /\ \E file \in DOMAIN files : file[1] # sourceLanguage /\ Len(files[file]) > 0

\* C4: for every target language, sync deletes every namespace file whose
\* namespace is absent from the source's namespaces (stated here for a source
\* that has at least one namespace).
C4_OrphanedNamespaceFilesDeleted ==
  (call.op = "sync" /\ SourceNamespaces(call.pre) # {}) =>
    \A language \in Targets, namespace \in Namespaces \ SourceNamespaces(call.pre) :
      existsSync(call.pre, language, namespace)
        => ~existsSync(Disk, language, namespace)

\* C5: when (L,N) has no file before sync, N a source namespace, sync leaves a
\* file with exactly the keys of source N, every value the empty string, and
\* exactly one createdFiles entry for (L,N).
C5_CreatedFileIsEmptyCopyOfSource ==
  call.op = "sync" =>
    \A language \in Targets, namespace \in SourceNamespaces(call.pre) :
      ~existsSync(call.pre, language, namespace) =>
        /\ existsSync(Disk, language, namespace)
        /\ ObjectKeys(files[<<language, namespace>>])
             = ObjectKeys(SourceFile(call.pre, namespace))
        /\ \A key \in KeySet(files[<<language, namespace>>]) :
             Get(files[<<language, namespace>>], key) = <<>>
        /\ Count(call.syncResult.createdFiles,
                 LAMBDA e : e.language = language /\ e.namespace = namespace) = 1

C5_Witness ==
  /\ call.op = "sync"
  /\ \E language \in Targets, namespace \in SourceNamespaces(call.pre) :
       /\ ~existsSync(call.pre, language, namespace)
       /\ Len(SourceFile(call.pre, namespace)) = 2
       /\ Len(files[<<language, namespace>>]) = 2

\* C6: sync makes no write to an existing target file that holds no key absent
\* from the source, and the file is as it was, also when source keys are
\* missing from it.
C6_NoOrphanNoWrite ==
  call.op = "sync" =>
    \A language \in Targets, namespace \in SourceNamespaces(call.pre) :
      (/\ existsSync(call.pre, language, namespace)
       /\ OrphanedKeys(call.pre, language, namespace) = {}) =>
        /\ <<language, namespace>> \notin Range(call.written)
        /\ files[<<language, namespace>>] = call.pre.files[<<language, namespace>>]

C6_Witness ==
  /\ call.op = "sync"
  /\ \E language \in Targets, namespace \in SourceNamespaces(call.pre) :
       /\ existsSync(call.pre, language, namespace)
       /\ OrphanedKeys(call.pre, language, namespace) = {}
       /\ KeySet(call.pre.files[<<language, namespace>>])
            # KeySet(SourceFile(call.pre, namespace))
       /\ files[<<language, namespace>>] = call.pre.files[<<language, namespace>>]

\* C7: every key that is in both target file (L,N) and source N before sync is
\* in the target file after sync, with the value it had.
C7_SharedKeysKeepTheirValue ==
  call.op = "sync" =>
    \A language \in Targets, namespace \in SourceNamespaces(call.pre) :
      existsSync(call.pre, language, namespace) =>
        \A key \in KeySet(call.pre.files[<<language, namespace>>])
                     \cap KeySet(SourceFile(call.pre, namespace)) :
          /\ Defined(files[<<language, namespace>>], key)
          /\ Get(files[<<language, namespace>>], key)
               = Get(call.pre.files[<<language, namespace>>], key)

C7_Witness ==
  /\ call.op = "sync"
  /\ \E language \in Targets, namespace \in SourceNamespaces(call.pre) :
       /\ existsSync(call.pre, language, namespace)
       /\ <<language, namespace>> \in Range(call.written)
       /\ \E key \in KeySet(SourceFile(call.pre, namespace)) :
            /\ Defined(call.pre.files[<<language, namespace>>], key)
            /\ ~Blank(Get(files[<<language, namespace>>], key))

\* The missing/empty entries of (language, namespace, key)
Entries(list, language, namespace, key) ==
  Count(list, LAMBDA e : e.language = language /\ e.namespace = namespace
                            /\ e.key = key)

\* The (target language, source namespace, source key) triples of disk fs
Triples(fs) ==
  {t \in Targets \X SourceNamespaces(fs) \X TranslationKeys :
     t[3] \in KeySet(SourceFile(fs, t[2]))}

\* Key t[3] is absent from target file (t[1], t[2]) of the disk
Absent(t) ==
  \/ ~existsSync(Disk, t[1], t[2])
  \/ ~Defined(files[<<t[1], t[2]>>], t[3])

\* C8: validateTranslations lists a (target language, source namespace, source
\* key) triple once in `missing` iff the key is absent from the target file
\* the call leaves on disk, once in `empty` iff it is there with a
\* whitespace-only value, and in neither otherwise; the two lists hold nothing
\* else, and `valid` is true iff missing, empty and orphaned are all empty.
C8_EveryTripleClassifiedOnce ==
  call.op = "validate" =>
    /\ \A t \in Triples(call.pre) :
         /\ Entries(call.result.missing, t[1], t[2], t[3])
              = IF Absent(t) THEN 1 ELSE 0
         /\ Entries(call.result.empty, t[1], t[2], t[3])
              = IF ~Absent(t) /\ Blank(Get(files[<<t[1], t[2]>>], t[3]))
                  THEN 1 ELSE 0
    /\ \A e \in Range(call.result.missing) \cup Range(call.result.empty) :
         <<e.language, e.namespace, e.key>> \in Triples(call.pre)
    /\ call.result.valid
         <=> (/\ call.result.missing = <<>>
              /\ call.result.empty = <<>>
              /\ call.result.orphaned = <<>>)

C8_Witness ==
  /\ call.op = "validate"
  /\ call.result.missing # <<>>
  /\ \E e \in Range(call.result.empty) :
       Len(Get(files[<<e.language, e.namespace>>], e.key)) > 0
  /\ ~call.result.valid

\* C9: validateTranslations returns an empty `orphaned` list, and no key that a
\* target file of a source namespace held without the source holding it is
\* left in that file.
C9_NoOrphanAfterValidate ==
  call.op = "validate" =>
    /\ call.result.orphaned = <<>>
    /\ \A language \in Targets, namespace \in SourceNamespaces(call.pre) :
         existsSync(call.pre, language, namespace) =>
           \A key \in OrphanedKeys(call.pre, language, namespace) :
             ~Defined(files[<<language, namespace>>], key)

C9_Witness ==
  /\ call.op = "validate"
  /\ call.syncResult.cleanedKeys # <<>>
  /\ \E language \in Targets, namespace \in SourceNamespaces(call.pre) :
       /\ existsSync(call.pre, language, namespace)
       /\ OrphanedKeys(call.pre, language, namespace) # {}

\* C10 as stated: for a configured language without a directory,
\* validateTranslations lists every source key of every source namespace in
\* `missing`.
C10_NoDirectoryAllMissing ==
  call.op = "validate" =>
    \A t \in Triples(call.pre) :
      t[1] \notin call.pre.dirs =>
        Entries(call.result.missing, t[1], t[2], t[3]) = 1

\* C10 amended: for a configured language without a directory,
\* validateTranslations lists every source key of every source namespace once
\* in `empty` and never in `missing`.
C10_NoDirectoryAllEmpty ==
  call.op = "validate" =>
    \A t \in Triples(call.pre) :
      t[1] \notin call.pre.dirs =>
        /\ Entries(call.result.empty, t[1], t[2], t[3]) = 1
        /\ Entries(call.result.missing, t[1], t[2], t[3]) = 0

C10_Witness ==
  /\ call.op = "validate"
  /\ \E t \in Triples(call.pre) :
       /\ t[1] \notin call.pre.dirs
       /\ t[1] \in dirs
       /\ Entries(call.result.empty, t[1], t[2], t[3]) = 1

\* ============================================================== auto-fill
\* autoFillTranslations and its processConcurrently helper.  `run` is the
\* state of one run: pc is where the async function stands, `calls` maps
\* <<language, index>> to each processor call started so far.  The delay
\* option is left at its default.
MaxLimit == 2
MaxConcurrency == 2

\* `limit = Infinity`: larger than any number of items
Infinity == 1000000
delayMs == 50

\* The text the provider answers with
Translated == <<"B", "o", "n", "j", "o", "u", "r">>

\* Array.prototype.sort on the keys of the fixtures
KeyOrder == <<"CANCEL", "ERROR", "GOODBYE", "HELLO", "SAVE">>

sortKeys(obj) ==
  LET keys == SelectSeq(KeyOrder, LAMBDA k : Defined(obj, k))
  IN [i \in 1..Len(keys) |-> [key |-> keys[i], value |-> Get(obj, keys[i])]]

\* array.indexOf(x), counted from 1; 0 when x is not in the array
IndexOf(array, x) ==
  IF x \in Range(array) THEN CHOOSE i \in 1..Len(array) :
                               array[i] = x /\ \A j \in 1..(i - 1) : array[j] # x
  ELSE 0

\* array.splice(index, 1)
Splice(array, index) ==
  SubSeq(array, 1, index - 1) \o SubSeq(array, index + 1, Len(array))

\* array.slice(0, n)
Slice(array, n) == SubSeq(array, 1, IF n < Len(array) THEN n ELSE Len(array))

\* Faulty variant: the lists are not filtered by language; every item is taken
\* as one of the language asked for
getMissingForLanguage_Unfiltered(fs, langs, language) ==
  LET v == validateTranslations(fs, langs)
      OfType(list, type) ==
        [i \in 1..Len(list) |->
           [namespace |-> list[i].namespace, key |-> list[i].key,
            language |-> language, sourceValue |-> list[i].sourceValue,
            type |-> type]]
  IN [fs |-> v.fs,
      items |-> OfType(v.result.missing, "missing") \o OfType(v.result.empty, "empty")]

\* Faulty variant: the keys with an empty value are left out
getMissingForLanguage_MissingOnly(fs, langs, language) ==
  LET v == validateTranslations(fs, langs)
      own == SelectSeq(v.result.missing, LAMBDA m : m.language = language)
  IN [fs |-> v.fs,
      items |-> [i \in 1..Len(own) |->
                   [namespace |-> own[i].namespace, key |-> own[i].key,
                    language |-> own[i].language, sourceValue |-> own[i].sourceValue,
                    type |-> "missing"]]]

\* Returns [fs, items]: validateTranslations runs, its sync included
getMissingForLanguage(fs, langs, language) ==
  LET v == validateTranslations(fs, langs)
      OfType(list, type) ==
        LET own == SelectSeq(list, LAMBDA m : m.language = language)
        IN [i \in 1..Len(own) |->
              [namespace |-> own[i].namespace, key |-> own[i].key,
               language |-> own[i].language, sourceValue |-> own[i].sourceValue,
               type |-> type]]
  IN [fs |-> v.fs,
      items |-> OfType(v.result.missing, "missing") \o OfType(v.result.empty, "empty")]

AutoFillOptions ==
  [language : {Null} \cup Range(TargetLanguages(languages)),
   limit : (0..MaxLimit) \cup {Infinity},
   concurrency : 1..MaxConcurrency,
   dryRun : BOOLEAN]

\* The value of a key on disk: <<value>>, or <<>> where the key is not there
Entry(fs, language, namespace, key) ==
  IF existsSync(fs, language, namespace)
       /\ Defined(fs.files[<<language, namespace>>], key)
    THEN <<Get(fs.files[<<language, namespace>>], key)>>
    ELSE <<>>

\* const remainingLimit = limit - totalProcessed
RemainingLimit(limit, totalProcessed) ==
  IF limit = Infinity THEN Infinity ELSE limit - totalProcessed

\* Faulty variant: the whole list is taken, whatever is left of the limit
ItemsToProcess_Unsliced(missing, limit, totalProcessed) == missing

ItemsToProcess(missing, limit, totalProcessed) ==
  LET remainingLimit == RemainingLimit(limit, totalProcessed)
  IN Slice(missing, IF remainingLimit = Infinity THEN Len(missing) ELSE remainingLimit)

\* The language the loop of autoFillTranslations stands at
CurrentLanguage(r) == r.languagesToProcess[r.language]

Settled(r, c) == r.calls[c].phase \in {"succeeded", "failed"}

\* The processor calls whose provider request is out
InFlight(r) == {c \in DOMAIN r.calls : r.calls[c].phase = "translating"}

\* The promises of `executing`, of the current language's batch
Executing(r) == {<<CurrentLanguage(r), r.executing[j]>> : j \in 1..Len(r.executing)}

\* Nothing of the async function can run: it awaits an unsettled promise, or
\* it is over.  Only then do provider answers and timers get their turn.
Blocked(r) ==
  \/ r.pc \in {"returned", "threw"}
  \/ r.pc = "race" /\ \A c \in Executing(r) : ~Settled(r, c)
  \/ r.pc = "all" /\ \E c \in Executing(r) : ~Settled(r, c)

\* The translation files an auto-fill run may find: a full source namespace,
\* and for each target language no file, a partial, a blank or a full one
SourceCommon ==
  <<[key |-> "GOODBYE", value |-> <<"H", "e", "l", "l", "o">>],
    [key |-> "HELLO", value |-> <<"H", "e", "l", "l", "o">>]>>

FillTargetFiles ==
  {<<>>,
   <<[key |-> "HELLO", value |-> Translated]>>,
   <<[key |-> "GOODBYE", value |-> <<>>], [key |-> "HELLO", value |-> <<" ">>]>>,
   <<[key |-> "GOODBYE", value |-> Translated], [key |-> "HELLO", value |-> Translated]>>}

FillDisks ==
  LET source == writeTranslation([dirs |-> {}, files |-> <<>>],
                                 sourceLanguage, "common", SourceCommon)
      With(fs, language, present, file) ==
        IF present THEN writeTranslation(fs, language, "common", file) ELSE fs
  IN {With(With(source, "fr", fr[1], fr[2]), "es", es[1], es[2]) :
        fr \in BOOLEAN \X FillTargetFiles, es \in BOOLEAN \X FillTargetFiles}

InitFill ==
  /\ \E fs \in FillDisks : dirs = fs.dirs /\ files = fs.files
  /\ call = NoCall
  /\ prior = NoCall
  /\ run = NoRun
  /\ registry = DefaultRegistry
  /\ task = NoTask
  /\ calc = NoCalc

\* autoFillTranslations up to its loop over the languages
StartAutoFill(options) ==
  /\ run.pc = "idle"
  /\ LET r == syncTranslationStructure(Disk, languages)
     IN /\ dirs' = r.fs.dirs
        /\ files' = r.fs.files
        /\ run' = [pc |-> "language", options |-> options, pre |-> Disk,
                   languagesToProcess |->
                     IF options.language # Null THEN <<options.language>>
                     ELSE SelectSeq(languages, LAMBDA lang : lang # sourceLanguage),
                   language |-> 1, totalProcessed |-> 0, totalTranslated |-> 0,
                   items |-> <<>>, i |-> 1, executing |-> <<>>, calls |-> <<>>]
  /\ registry' = SelectProvider(registry)
  /\ UNCHANGED <<call, prior, calc>>

\* autoFillTranslations called on its own
AutoFill(options) == StartAutoFill(options) /\ UNCHANGED task

\* for (const language of languagesToProcess), up to processConcurrently
ForLanguage ==
  /\ run.pc = "language"
  /\ IF run.language > Len(run.languagesToProcess)
          \/ run.totalProcessed >= run.options.limit
       THEN /\ run' = [run EXCEPT !.pc = "returned"]
            /\ UNCHANGED <<dirs, files>>
       ELSE LET m == getMissingForLanguage(Disk, languages, CurrentLanguage(run))
            IN /\ dirs' = m.fs.dirs
               /\ files' = m.fs.files
               /\ run' = IF Len(m.items) = 0
                           THEN [run EXCEPT !.language = @ + 1]
                           ELSE [run EXCEPT
                                   !.pc = "loop",
                                   !.items = ItemsToProcess(m.items, run.options.limit,
                                                            run.totalProcessed),
                                   !.i = 1,
                                   !.executing = <<>>]
  /\ UNCHANGED <<call, prior, calc, registry, task>>

\* processConcurrently: the body of `for (let i = 0; i < items.length; i++)`.
\* The processor runs up to its `await translateText(...)`, so the request
\* is out when the promise is pushed.
ForItem ==
  /\ run.pc = "loop"
  /\ IF run.i > Len(run.items)
       THEN run' = [run EXCEPT !.pc = "all"]
       ELSE LET item == run.items[run.i]
                c == <<CurrentLanguage(run), run.i>>
                started == [item |-> item, phase |-> "translating",
                            through |-> getTranslationProvider(registry),
                            before |-> Entry(Disk, item.language, item.namespace,
                                             item.key)]
                executing == Append(run.executing, run.i)
            IN run' = [run EXCEPT
                         !.calls = (c :> started) @@ @,
                         !.executing = executing,
                         !.pc = IF Len(executing) >= run.options.concurrency
                                  THEN "race" ELSE "loop",
                         !.i = IF Len(executing) >= run.options.concurrency
                                 THEN @ ELSE @ + 1]
  /\ UNCHANGED <<dirs, files, call, prior, calc, registry, task>>

\* The statements after `await Promise.race(executing)`: `promise` is the
\* promise of this iteration
AfterRace(r) ==
  LET index == IndexOf(r.executing, r.i)
  IN [r EXCEPT !.executing = IF index # 0 THEN Splice(@, index) ELSE @,
               !.i = @ + 1, !.pc = "loop"]

\* await Promise.race(executing) resumes once a promise of the array is settled
AwaitRace ==
  /\ run.pc = "race"
  /\ \E c \in Executing(run) : Settled(run, c)
  /\ run' = AfterRace(run)
  /\ UNCHANGED <<dirs, files, call, prior, calc, registry, task>>

\* results.filter((r) => r.success).length, over the slots set so far
Successes(r) ==
  Cardinality({j \in 1..Len(r.items) :
                 r.calls[<<CurrentLanguage(r), j>>].phase = "succeeded"})

\* await Promise.all(executing), the return of processConcurrently and the
\* totals of autoFillTranslations
AwaitAll ==
  /\ run.pc = "all"
  /\ \A c \in Executing(run) : Settled(run, c)
  /\ run' = [run EXCEPT !.pc = "language",
                        !.totalProcessed = @ + Len(run.items),
                        !.totalTranslated = @ + Successes(run),
                        !.language = @ + 1]
  /\ UNCHANGED <<dirs, files, call, prior, calc, registry, task>>

\* Faulty variant: the key is set in the namespace as it was read when the
\* run began, not as it is on disk now
Save_FromSnapshot(fs, item, dryRun) ==
  IF dryRun THEN fs
  ELSE LET translations == readTranslations(run.pre, item.language)
           namespace == IF item.namespace \in DOMAIN translations
                          THEN translations[item.namespace] ELSE <<>>
       IN writeTranslation(fs, item.language, item.namespace,
                           sortKeys(Put(namespace, item.key, Translated)))

\* if (!dryRun) { read, set the key, sortKeys, write }
Save(fs, item, dryRun) ==
  IF dryRun THEN fs
  ELSE LET translations == readTranslations(fs, item.language)
           namespace == IF item.namespace \in DOMAIN translations
                          THEN translations[item.namespace] ELSE <<>>
       IN writeTranslation(fs, item.language, item.namespace,
                           sortKeys(Put(namespace, item.key, Translated)))

\* translateText resolves: the processor saves and goes on to its delay
TranslateResolves(c) ==
  /\ Blocked(run)
  /\ c \in InFlight(run)
  /\ LET fs == Save(Disk, run.calls[c].item, run.options.dryRun)
     IN /\ dirs' = fs.dirs
        /\ files' = fs.files
  /\ run' = [run EXCEPT !.calls[c].phase =
                          IF delayMs > 0 THEN "delaying" ELSE "succeeded"]
  /\ UNCHANGED <<call, prior, calc, registry, task>>

\* Faulty variant: the error is not caught and rejects Promise.race and
\* Promise.all, and with them autoFillTranslations
Caught_Rethrown(r, c) ==
  [r EXCEPT !.calls[c].phase = "failed", !.pc = "threw"]

\* catch (error) { return { success: false, item } }
Caught(r, c) == [r EXCEPT !.calls[c].phase = "failed"]

\* translateText throws
TranslateRejects(c) ==
  /\ Blocked(run)
  /\ c \in InFlight(run)
  /\ run' = Caught(run, c)
  /\ UNCHANGED <<dirs, files, call, prior, calc, registry, task>>

\* The setTimeout of the delay fires and the processor returns success
DelayElapsed(c) ==
  /\ Blocked(run)
  /\ run.calls[c].phase = "delaying"
  /\ run' = [run EXCEPT !.calls[c].phase = "succeeded"]
  /\ UNCHANGED <<dirs, files, call, prior, calc, registry, task>>

\* The processor calls started so far
Started(r) == IF r.pc = "idle" THEN {} ELSE DOMAIN r.calls

NextFill ==
  \/ \E options \in AutoFillOptions : AutoFill(options)
  \/ ForLanguage
  \/ ForItem
  \/ AwaitRace
  \/ AwaitAll
  \/ \E c \in Started(run) : TranslateResolves(c)
  \/ \E c \in Started(run) : TranslateRejects(c)
  \/ \E c \in Started(run) : DelayElapsed(c)

SpecFill == InitFill /\ [][NextFill]_vars

\* ------------------------------------------------------ claims on auto-fill
Running == run.pc # "idle"

\* The calls that have returned { success: true }
Succeeded(r) == {c \in DOMAIN r.calls : r.calls[c].phase = "succeeded"}

\* What is on disk for the key a processor call is about
EntryOf(c) ==
  Entry(Disk, run.calls[c].item.language, run.calls[c].item.namespace,
        run.calls[c].item.key)

\* C11: at every moment of an auto-fill run the number of provider calls in
\* flight is at most the `concurrency` option.
C11_InFlightWithinConcurrency ==
  Running => Cardinality(InFlight(run)) <= run.options.concurrency

\* C12: when autoFillTranslations has returned every processor call that was
\* started has settled, and the total it reports as translated is the number
\* of calls that succeeded.
C12_ReturnsAfterEveryCallSettled ==
  run.pc = "returned" =>
    /\ \A c \in DOMAIN run.calls : Settled(run, c)
    /\ run.totalTranslated = Cardinality(Succeeded(run))

\* C13: the items handed to the provider in one run, over all languages, are
\* never more than `limit`, and so is the total counted as processed.
C13_HandedItemsWithinLimit ==
  Running =>
    /\ Cardinality(DOMAIN run.calls) <= run.options.limit
    /\ run.totalProcessed <= run.options.limit

\* A run with limit 1 over a language that had two keys to fill has returned
\* with languages left, having handed over one item
C13_Witness ==
  /\ run.pc = "returned"
  /\ run.options.limit = 1
  /\ run.language <= Len(run.languagesToProcess)
  /\ DOMAIN run.calls = {<<"fr", 1>>}
  /\ Entry(run.pre, "fr", "common", "GOODBYE") = <<>>
  /\ Entry(run.pre, "fr", "common", "HELLO") = <<>>

\* C14: a failed translation is contained.  The run does not throw; the
\* failed item's key keeps the value it had and is not counted as translated;
\* every item selected for the language is handed to the provider whatever
\* became of the others, and an answered one is on disk (unless dryRun).
C14_FailureIsContained ==
  Running =>
    /\ run.pc # "threw"
    /\ \A c \in DOMAIN run.calls :
         /\ run.calls[c].phase = "failed" => EntryOf(c) = run.calls[c].before
         /\ (run.calls[c].phase \in {"delaying", "succeeded"} /\ ~run.options.dryRun)
              => EntryOf(c) = <<Translated>>
    /\ run.totalTranslated <= Cardinality(Succeeded(run))
    /\ run.pc = "all" =>
         \A j \in 1..Len(run.items) : <<CurrentLanguage(run), j>> \in DOMAIN run.calls

\* A saving run has returned, all calls settled, with one language's two
\* items one failed and one translated and written
C14_Witness ==
  /\ run.pc = "returned"
  /\ ~run.options.dryRun
  /\ \A c \in DOMAIN run.calls : Settled(run, c)
  /\ \E c, d \in DOMAIN run.calls :
       /\ c[1] = d[1]
       /\ run.calls[c].phase = "failed"
       /\ EntryOf(c) = run.calls[c].before
       /\ run.calls[d].phase = "succeeded"
       /\ EntryOf(d) = <<Translated>>

\* C15: in a dry run the translation files and directories are, at every
\* moment of the run and after it, those the run found.
C15_DryRunLeavesDiskAsItWas ==
  (Running /\ run.options.dryRun) => Disk = run.pre

\* ========================================================= find-duplicates
\* findDuplicates over the source language's files.  `calc` records the
\* library function applied last and what it returned.
DupValues == {<<>>, <<"S", "a", "v", "e">>, <<"E", "r", "r", "o", "r">>}

\* The JSON objects of up to two keys, in either insertion order
DupFiles ==
  {<<>>}
    \cup {<<[key |-> k, value |-> v]>> : k \in TranslationKeys, v \in DupValues}
    \cup {<<[key |-> k[1], value |-> v[1]], [key |-> k[2], value |-> v[2]]>> :
            k \in {kk \in TranslationKeys \X TranslationKeys : kk[1] # kk[2]},
            v \in DupValues \X DupValues}

\* The source directories findDuplicates may find: none, or one holding each
\* namespace file or not
DupDisks ==
  LET none == [dirs |-> {}, files |-> <<>>]
      With(fs, namespace, present, file) ==
        IF present THEN writeTranslation(fs, sourceLanguage, namespace, file) ELSE fs
  IN {none} \cup
     {With(With(ensureTranslationsStructure(none, <<sourceLanguage>>),
                "common", c[1], c[2]), "test", t[1], t[2]) :
        c \in BOOLEAN \X DupFiles, t \in BOOLEAN \X DupFiles}

\* Faulty variant: a later common key with the same value replaces the first
RECURSIVE ValueToCommonKey_KeepsLast(_, _, _)
ValueToCommonKey_KeepsLast(commonValues, i, map) ==
  IF i > Len(commonValues) THEN map
  ELSE ValueToCommonKey_KeepsLast(commonValues, i + 1,
         (commonValues[i].value :> commonValues[i].key) @@ map)

\* The reverse map value -> key in common: the first key of a value is kept
RECURSIVE ValueToCommonKey(_, _, _)
ValueToCommonKey(commonValues, i, map) ==
  IF i > Len(commonValues) THEN map
  ELSE ValueToCommonKey(commonValues, i + 1,
         IF commonValues[i].value \in DOMAIN map THEN map
         ELSE (commonValues[i].value :> commonValues[i].key) @@ map)

\* Faulty variant: only the keys found duplicated are counted
RECURSIVE CheckNamespace_CountsDuplicates(_, _, _, _, _)
CheckNamespace_CountsDuplicates(acc, namespace, nsValues, valueToCommonKey, i) ==
  IF i > Len(nsValues) THEN acc
  ELSE LET value == nsValues[i].value
           found == value \in DOMAIN valueToCommonKey /\ valueToCommonKey[value] # ""
       IN CheckNamespace_CountsDuplicates(
            [duplicates |->
               IF found
                 THEN Append(acc.duplicates,
                             [namespace |-> namespace, key |-> nsValues[i].key,
                              commonKey |-> valueToCommonKey[value], value |-> value])
                 ELSE acc.duplicates,
             totalKeysChecked |-> acc.totalKeysChecked + (IF found THEN 1 ELSE 0)],
            namespace, nsValues, valueToCommonKey, i + 1)

\* for (const [key, value] of Object.entries(nsValues)); `if (commonKey)`
\* holds for a key that is found and is not the empty string
RECURSIVE CheckNamespace(_, _, _, _, _)
CheckNamespace(acc, namespace, nsValues, valueToCommonKey, i) ==
  IF i > Len(nsValues) THEN acc
  ELSE LET value == nsValues[i].value
           found == value \in DOMAIN valueToCommonKey /\ valueToCommonKey[value] # ""
       IN CheckNamespace(
            [duplicates |->
               IF found
                 THEN Append(acc.duplicates,
                             [namespace |-> namespace, key |-> nsValues[i].key,
                              commonKey |-> valueToCommonKey[value], value |-> value])
                 ELSE acc.duplicates,
             totalKeysChecked |-> acc.totalKeysChecked + 1],
            namespace, nsValues, valueToCommonKey, i + 1)

\* for (const namespace of namespaces)
RECURSIVE CheckNamespaces(_, _, _, _, _)
CheckNamespaces(acc, namespaces, sourceTranslations, valueToCommonKey, j) ==
  IF j > Len(namespaces) THEN acc
  ELSE CheckNamespaces(
         IF namespaces[j] = "common" THEN acc
         ELSE CheckNamespace(acc, namespaces[j],
                IF namespaces[j] \in DOMAIN sourceTranslations
                  THEN sourceTranslations[namespaces[j]] ELSE <<>>,
                valueToCommonKey, 1),
         namespaces, sourceTranslations, valueToCommonKey, j + 1)

findDuplicates(fs) ==
  LET namespaces == getNamespaces(fs, sourceLanguage)
      sourceTranslations == readTranslations(fs, sourceLanguage)
      commonValues == IF "common" \in DOMAIN sourceTranslations
                        THEN sourceTranslations["common"] ELSE <<>>
  IN IF Len(ObjectKeys(commonValues)) = 0
       THEN [duplicates |-> <<>>, totalKeysChecked |-> 0]
       ELSE CheckNamespaces([duplicates |-> <<>>, totalKeysChecked |-> 0],
                            namespaces, sourceTranslations,
                            ValueToCommonKey(commonValues, 1, <<>>), 1)

InitDup ==
  /\ \E fs \in DupDisks : dirs = fs.dirs /\ files = fs.files
  /\ call = NoCall
  /\ prior = NoCall
  /\ run = NoRun
  /\ registry = DefaultRegistry
  /\ task = NoTask
  /\ calc = NoCalc

FindDuplicates ==
  /\ calc = NoCalc
  /\ calc' = [op |-> "findDuplicates", result |-> findDuplicates(Disk)]
  /\ UNCHANGED <<dirs, files, call, prior, run, registry, task>>

NextDup == FindDuplicates

SpecDup == InitDup /\ [][NextDup]_vars

\* ------------------------------------------------ claims on find-duplicates
Duplicates == calc.result.duplicates

\* The first key of the common namespace that holds the value
FirstCommonKey(value) ==
  LET common == SourceFile(Disk, "common")
      first == CHOOSE i \in 1..Len(common) :
                 /\ common[i].value = value
                 /\ \A j \in 1..(i - 1) : common[j].value # value
  IN common[first].key

\* The <<namespace, key>> pairs outside common whose value some common key has
DuplicatedPairs ==
  IF "common" \notin SourceNamespaces(Disk) THEN {}
  ELSE {p \in (SourceNamespaces(Disk) \ {"common"}) \X TranslationKeys :
          /\ Defined(SourceFile(Disk, p[1]), p[2])
          /\ \E i \in 1..Len(SourceFile(Disk, "common")) :
               SourceFile(Disk, "common")[i].value = Get(SourceFile(Disk, p[1]), p[2])}

\* C16: findDuplicates reports exactly the (namespace, key) pairs outside
\* common whose value equals the value of some common key, each once, with
\* the pair's value and the first common key that holds it.
C16_DuplicatesAreExactlyTheSharedValues ==
  calc.op = "findDuplicates" =>
    /\ {<<Duplicates[i].namespace, Duplicates[i].key>> : i \in 1..Len(Duplicates)}
         = DuplicatedPairs
    /\ Len(Duplicates) = Cardinality(DuplicatedPairs)
    /\ \A i \in 1..Len(Duplicates) :
         /\ Duplicates[i].value
              = Get(SourceFile(Disk, Duplicates[i].namespace), Duplicates[i].key)
         /\ Duplicates[i].commonKey = FirstCommonKey(Duplicates[i].value)

\* Two common keys share a value; of the other namespace's two keys one has
\* that value and is reported under the first common key, one is not reported
C16_Witness ==
  /\ calc.op = "findDuplicates"
  /\ Len(Duplicates) = 1
  /\ Len(SourceFile(Disk, "test")) = 2
  /\ Len(SourceFile(Disk, "common")) = 2
  /\ SourceFile(Disk, "common")[1].value = SourceFile(Disk, "common")[2].value
  /\ Duplicates[1].commonKey = SourceFile(Disk, "common")[1].key
  /\ Duplicates[1].commonKey = "HELLO"

\* The keys of the source namespaces other than common
RECURSIVE KeysOutsideCommon(_)
KeysOutsideCommon(namespaces) ==
  IF namespaces = {} THEN 0
  ELSE LET n == CHOOSE x \in namespaces : TRUE
       IN (IF n = "common" THEN 0 ELSE Len(SourceFile(Disk, n)))
            + KeysOutsideCommon(namespaces \ {n})

\* C17: without a common namespace, or with an empty one, findDuplicates
\* returns no duplicates and a count of 0; otherwise the count is the number
\* of keys of the source namespaces other than common.
C17_TotalKeysChecked ==
  calc.op = "findDuplicates" =>
    IF "common" \notin SourceNamespaces(Disk) \/ Len(SourceFile(Disk, "common")) = 0
      THEN calc.result = [duplicates |-> <<>>, totalKeysChecked |-> 0]
      ELSE calc.result.totalKeysChecked = KeysOutsideCommon(SourceNamespaces(Disk))

\* A common namespace with keys, and two keys elsewhere that are counted
\* though neither is a duplicate
C17_Witness ==
  /\ calc.op = "findDuplicates"
  /\ SourceNamespaces(Disk) = {"common", "test"}
  /\ Len(SourceFile(Disk, "common")) > 0
  /\ calc.result.totalKeysChecked = 2
  /\ Len(Duplicates) = 0

\* ========================================================== generate-types
\* extractPluralBaseKeys.  A key is the sequence of its characters, so that
\* endsWith and slice are computed.
MaxKeys == 3

PLURAL_SUFFIXES ==
  <<<<"_", "z", "e", "r", "o">>, <<"_", "o", "n", "e">>, <<"_", "t", "w", "o">>,
    <<"_", "f", "e", "w">>, <<"_", "m", "a", "n", "y">>,
    <<"_", "o", "t", "h", "e", "r">>>>

\* The keys the lists are made of: a base key, its plural forms, a bare
\* suffix, a suffix after a suffix, and suffixes that are not at the end
PluralKeyPool ==
  LET it == <<"i", "t">>
  IN {it,
      it \o PLURAL_SUFFIXES[1], it \o PLURAL_SUFFIXES[2], it \o PLURAL_SUFFIXES[3],
      it \o PLURAL_SUFFIXES[4], it \o PLURAL_SUFFIXES[5], it \o PLURAL_SUFFIXES[6],
      PLURAL_SUFFIXES[2],
      it \o PLURAL_SUFFIXES[2] \o PLURAL_SUFFIXES[6],
      it \o PLURAL_SUFFIXES[2] \o <<"x">>,
      <<"s", "o", "m", "e", "o", "n", "e">>}

KeyLists == UNION {[1..n -> PluralKeyPool] : n \in 0..MaxKeys}

\* key.endsWith(suffix)
endsWith(key, suffix) ==
  /\ Len(key) >= Len(suffix)
  /\ SubSeq(key, Len(key) - Len(suffix) + 1, Len(key)) = suffix

\* key.slice(0, -n), for 0 < n
SliceEnd(key, n) == SubSeq(key, 1, Len(key) - n)

\* baseKeys.add(baseKey): a Set keeps its elements once, in insertion order
SetAdd(set, x) == IF x \in Range(set) THEN set ELSE Append(set, x)

\* Faulty variant: the base key is added although it is itself a key
RECURSIVE ForSuffix_KeepsExistingBase(_, _, _, _)
ForSuffix_KeepsExistingBase(baseKeys, keySet, key, j) ==
  IF j > Len(PLURAL_SUFFIXES) THEN baseKeys
  ELSE IF endsWith(key, PLURAL_SUFFIXES[j])
    THEN LET baseKey == SliceEnd(key, Len(PLURAL_SUFFIXES[j]))
         IN IF baseKey # <<>> THEN SetAdd(baseKeys, baseKey) ELSE baseKeys
    ELSE ForSuffix_KeepsExistingBase(baseKeys, keySet, key, j + 1)

\* for (const suffix of PLURAL_SUFFIXES) { if (key.endsWith(suffix)) {...; break} }
RECURSIVE ForSuffix(_, _, _, _)
ForSuffix(baseKeys, keySet, key, j) ==
  IF j > Len(PLURAL_SUFFIXES) THEN baseKeys
  ELSE IF endsWith(key, PLURAL_SUFFIXES[j])
    THEN LET baseKey == SliceEnd(key, Len(PLURAL_SUFFIXES[j]))
         IN IF baseKey # <<>> /\ baseKey \notin keySet
              THEN SetAdd(baseKeys, baseKey) ELSE baseKeys
    ELSE ForSuffix(baseKeys, keySet, key, j + 1)

\* for (const key of keys)
RECURSIVE ForKey(_, _, _, _)
ForKey(baseKeys, keySet, keys, i) ==
  IF i > Len(keys) THEN baseKeys
  ELSE ForKey(ForSuffix(baseKeys, keySet, keys[i], 1), keySet, keys, i + 1)

extractPluralBaseKeys(keys) == ForKey(<<>>, Range(keys), keys, 1)

InitPlural ==
  /\ dirs = {}
  /\ files = <<>>
  /\ call = NoCall
  /\ prior = NoCall
  /\ run = NoRun
  /\ registry = DefaultRegistry
  /\ task = NoTask
  /\ \E keys \in KeyLists : calc = [op |-> "keys", keys |-> keys]

ExtractPluralBaseKeys ==
  /\ calc.op = "keys"
  /\ calc' = [op |-> "extractPluralBaseKeys", keys |-> calc.keys,
              result |-> extractPluralBaseKeys(calc.keys)]
  /\ UNCHANGED <<dirs, files, call, prior, run, registry, task>>

NextPlural == ExtractPluralBaseKeys

SpecPlural == InitPlural /\ [][NextPlural]_vars

\* ------------------------------------------------- claims on generate-types
\* The strings b, not empty and not themselves a key, with b + suffix a key
ExpectedBaseKeys(keys) ==
  {b \in UNION {{SubSeq(k, 1, n) : n \in 0..Len(k)} : k \in Range(keys)} :
     /\ b # <<>>
     /\ b \notin Range(keys)
     /\ \E j \in 1..Len(PLURAL_SUFFIXES) : (b \o PLURAL_SUFFIXES[j]) \in Range(keys)}

\* C18: extractPluralBaseKeys returns, once each, exactly the non-empty
\* strings b that are not keys and for which b followed by a plural suffix
\* is a key; a suffix that is not at the end of a key yields nothing.
C18_BaseKeysOfPluralForms ==
  calc.op = "extractPluralBaseKeys" =>
    /\ Range(calc.result) = ExpectedBaseKeys(calc.keys)
    /\ Len(calc.result) = Cardinality(ExpectedBaseKeys(calc.keys))

\* Two plural forms of one base and a key with the suffix inside it give the
\* base once
C18_Witness ==
  /\ calc.op = "extractPluralBaseKeys"
  /\ calc.keys = <<<<"i", "t">> \o PLURAL_SUFFIXES[2],
                   <<"i", "t">> \o PLURAL_SUFFIXES[2] \o <<"x">>,
                   <<"i", "t">> \o PLURAL_SUFFIXES[6]>>
  /\ calc.result = <<<<"i", "t">>>>

\* ============================================================== tree codec
\* Nested namespace files.  A JSON value is a node: a string leaf or an
\* object with its entries, [leaf, str, kids]; in this part a file on disk
\* holds entries whose values are nodes, and a key is the sequence of its
\* characters, so that the split on "." is computed.  flattenObject and
\* unflattenObject are not in the sources at hand; they follow the
\* specification of the tree codec and the expectations of
\* nested-translations.test.ts.
MaxEntries == 3

CodecKeys == {<<"a">>, <<"b">>, <<"a", ".", "b">>}
CodecStrings == {"Home", "Welcome"}

Leaf(str) == [leaf |-> TRUE, str |-> str, kids |-> <<>>]
Object(kids) == [leaf |-> FALSE, str |-> "", kids |-> kids]

\* The entry lists (objects) of exactly n keys, counted at every depth
RECURSIVE ObjectsOfSize(_)
ObjectsOfSize(n) ==
  IF n = 0 THEN {<<>>}
  ELSE UNION {
         UNION {
           {Append(o, [key |-> k, value |-> v]) : k \in CodecKeys \ KeySet(o)} :
             o \in ObjectsOfSize(n - 1 - m),
             v \in IF m = 0 THEN {Leaf(str) : str \in CodecStrings} \cup {Object(<<>>)}
                   ELSE {Object(kids) : kids \in ObjectsOfSize(m)}} :
         m \in 0..(n - 1)}

Trees == UNION {ObjectsOfSize(n) : n \in 0..MaxEntries}

\* Faulty variant: the path segments are joined without the "."
JoinPath_NoSeparator(prefix, key) == prefix \o key

\* prefix ? `${prefix}.${key}` : key
JoinPath(prefix, key) == IF prefix = <<>> THEN key ELSE prefix \o <<".">> \o key

\* Object.assign(target, source)
RECURSIVE Assign(_, _, _)
Assign(target, source, i) ==
  IF i > Len(source) THEN target
  ELSE Assign(Put(target, source[i].key, source[i].value), source, i + 1)

\* flattenObject(obj, prefix): every leaf under the dot-joined path of its
\* ancestors' keys; an empty nested object yields no entry
RECURSIVE FlattenEntries(_, _, _, _)
FlattenEntries(result, kids, prefix, i) ==
  IF i > Len(kids) THEN result
  ELSE LET newKey == JoinPath(prefix, kids[i].key)
           value == kids[i].value
       IN FlattenEntries(
            IF value.leaf THEN Put(result, newKey, value)
            ELSE Assign(result, FlattenEntries(<<>>, value.kids, newKey, 1), 1),
            kids, prefix, i + 1)

flattenObject(obj) == FlattenEntries(<<>>, obj, <<>>, 1)

\* key.split('.')
RECURSIVE Split(_, _, _)
Split(key, i, part) ==
  IF i > Len(key) THEN <<part>>
  ELSE IF key[i] = "." THEN <<part>> \o Split(key, i + 1, <<>>)
  ELSE Split(key, i + 1, Append(part, key[i]))

\* The walk of unflattenObject along the parts of one key: intermediate
\* objects are made on demand, a string in the way is replaced by an object
RECURSIVE SetPath(_, _, _)
SetPath(kids, parts, value) ==
  IF Len(parts) = 1 THEN Put(kids, parts[1], value)
  ELSE LET current == IF Defined(kids, parts[1]) /\ ~Get(kids, parts[1]).leaf
                        THEN Get(kids, parts[1]).kids ELSE <<>>
       IN Put(kids, parts[1], Object(SetPath(current, Tail(parts), value)))

RECURSIVE UnflattenEntries(_, _, _)
UnflattenEntries(result, flat, i) ==
  IF i > Len(flat) THEN result
  ELSE UnflattenEntries(SetPath(result, Split(flat[i].key, 1, <<>>), flat[i].value),
                        flat, i + 1)

unflattenObject(flat) == UnflattenEntries(<<>>, flat, 1)

\* A source directory whose common.json holds the tree
InitCodec ==
  /\ dirs = {sourceLanguage}
  /\ \E tree \in Trees : files = (<<sourceLanguage, "common">> :> tree)
  /\ call = NoCall
  /\ prior = NoCall
  /\ run = NoRun
  /\ registry = DefaultRegistry
  /\ task = NoTask
  /\ calc = NoCalc

\* The file's tree is flattened and the flat map unflattened
RoundTrip ==
  /\ calc = NoCalc
  /\ LET tree == files[<<sourceLanguage, "common">>]
     IN calc' = [op |-> "roundTrip", tree |-> tree, flat |-> flattenObject(tree),
                 result |-> unflattenObject(flattenObject(tree))]
  /\ UNCHANGED <<dirs, files, call, prior, run, registry, task>>

ReadTranslations ==
  /\ calc = NoCalc
  /\ calc' = [op |-> "readTranslations",
              result |-> readTranslations(Disk, sourceLanguage)]
  /\ UNCHANGED <<dirs, files, call, prior, run, registry, task>>

NextCodec ==
  \/ RoundTrip
  \/ ReadTranslations

SpecCodec == InitCodec /\ [][NextCodec]_vars

\* ------------------------------------------------- claims on the tree codec
\* No object below the top of the tree is empty
RECURSIVE NoEmptyNestedObject(_)
NoEmptyNestedObject(kids) ==
  \A i \in 1..Len(kids) :
    kids[i].value.leaf
      \/ (Len(kids[i].value.kids) > 0 /\ NoEmptyNestedObject(kids[i].value.kids))

\* No key of the tree, at any depth, contains "."
RECURSIVE NoDottedKey(_)
NoDottedKey(kids) ==
  \A i \in 1..Len(kids) :
    /\ "." \notin Range(kids[i].key)
    /\ kids[i].value.leaf \/ NoDottedKey(kids[i].value.kids)

\* C19: for a tree of string leaves with no empty nested object and no key
\* containing ".", unflattenObject(flattenObject(tree)) is the tree.
C19_UnflattenInvertsFlatten ==
  (calc.op = "roundTrip" /\ NoEmptyNestedObject(calc.tree) /\ NoDottedKey(calc.tree))
    => calc.result = calc.tree

\* A tree with a leaf inside a nested object next to a top-level leaf has
\* come back from its flat map of dot paths
C19_Witness ==
  /\ calc.op = "roundTrip"
  /\ calc.tree = <<[key |-> <<"a">>,
                    value |-> Object(<<[key |-> <<"b">>, value |-> Leaf("Home")]>>)],
                   [key |-> <<"b">>, value |-> Leaf("Welcome")]>>
  /\ calc.flat = <<[key |-> <<"a", ".", "b">>, value |-> Leaf("Home")],
                   [key |-> <<"b">>, value |-> Leaf("Welcome")]>>
  /\ calc.result = calc.tree

\* C20: readTranslations returns, for every namespace file, the flat map of
\* the file's tree: dot-path keys, every value a string.
C20_ReadReturnsFlatMaps ==
  calc.op = "readTranslations" =>
    \A namespace \in DOMAIN calc.result :
      /\ \A i \in 1..Len(calc.result[namespace]) : calc.result[namespace][i].value.leaf
      /\ calc.result[namespace] = flattenObject(files[<<sourceLanguage, namespace>>])

\* ==================================================== translation provider
\* The user's calls on the provider registry around an auto-fill run, for
\* every `provider` entry of the configuration (absent, deepl, google).

\* The providers a user may construct: the two shipped classes and one of
\* their own
UserProviders ==
  {Provider(class, "user") :
     class \in {"GoogleTranslateProvider", "DeepLTranslateProvider", "MyCustomProvider"}}

\* A source namespace of two keys and no target file yet
InitProvider ==
  /\ LET fs == writeTranslation([dirs |-> {}, files |-> <<>>], sourceLanguage,
                                "common", SourceCommon)
     IN dirs = fs.dirs /\ files = fs.files
  /\ call = NoCall
  /\ prior = NoCall
  /\ run = NoRun
  /\ calc = NoCalc
  /\ \E provider \in {Null, "deepl", "google"} :
       registry = [DefaultRegistry EXCEPT !.provider = provider]
  /\ task = NoTask

\* The user calls setTranslationProvider(provider) before the run
SetTranslationProvider(provider) ==
  /\ run.pc = "idle"
  /\ registry' = [setTranslationProvider(registry, provider) EXCEPT !.userSet = provider]
  /\ UNCHANGED <<dirs, files, call, prior, run, calc, task>>

\* The user calls resetTranslationProvider() before or after the run
ResetTranslationProvider ==
  /\ run.pc \in {"idle", "returned"}
  /\ registry.userSet # NoProvider \/ registry.customProvider # NoProvider
  /\ registry' = [resetTranslationProvider(registry) EXCEPT !.userSet = NoProvider]
  /\ UNCHANGED <<dirs, files, call, prior, run, calc, task>>

NextProvider ==
  \/ \E provider \in UserProviders : SetTranslationProvider(provider)
  \/ ResetTranslationProvider
  \/ NextFill

SpecProvider == InitProvider /\ [][NextProvider]_vars

\* --------------------------------------------------- claims on the provider
\* C21: while a provider set by the user with setTranslationProvider has not
\* been reset, every translation call of autoFillTranslations goes through
\* that very provider, whatever its class and whatever config.provider is.
C21_TranslationsGoThroughTheSetProvider ==
  registry.userSet # NoProvider =>
    \A c \in Started(run) : run.calls[c].through = registry.userSet

\* ====================================================== manageTranslations
\* The flag-mode command.  `task` is where manageTranslations stands and,
\* once it has returned, the boolean it resolved to.  It does not pass a
\* concurrency to autoFillTranslations, which then runs with its default.
DefaultConcurrency == 5
DefaultManageLimit == 1000

\* No source directory at all, or a source namespace of as many keys as the
\* default concurrency with one target language translated and the other's
\* file absent, blank or translated
ManageDisks ==
  LET All(value) == [i \in 1..Len(KeyOrder) |-> [key |-> KeyOrder[i], value |-> value]]
      ManageSource == All(<<"H", "e", "l", "l", "o">>)
      ManageBlank == All(<<>>)
      ManageFull == All(Translated)
      none == [dirs |-> {}, files |-> <<>>]
      source == writeTranslation(none, sourceLanguage, "common", ManageSource)
      With(fs, language, present, file) ==
        IF present THEN writeTranslation(fs, language, "common", file) ELSE fs
  IN {none} \cup
     {With(With(source, "fr", fr[1], fr[2]), "es", TRUE, ManageFull) :
        fr \in BOOLEAN \X {ManageBlank, ManageFull}}

ManageTranslationsOptions ==
  [autoFill : BOOLEAN, apiKey : BOOLEAN, limit : {MaxLimit, DefaultManageLimit},
   language : {Null, "fr"}, dryRun : BOOLEAN]

InitManage ==
  /\ \E fs \in ManageDisks : dirs = fs.dirs /\ files = fs.files
  /\ call = NoCall
  /\ prior = NoCall
  /\ run = NoRun
  /\ calc = NoCalc
  /\ registry = DefaultRegistry
  /\ task = NoTask

\* Steps 1 to 3: the source directory check, the sync and the validation
Manage(options) ==
  /\ task.pc = "idle"
  /\ IF sourceLanguage \notin dirs
       THEN /\ task' = [pc |-> "returned", options |-> options, result |-> FALSE]
            /\ UNCHANGED <<dirs, files>>
       ELSE LET s == syncTranslationStructure(Disk, languages)
                v == validateTranslations(s.fs, languages)
            IN /\ dirs' = v.fs.dirs
               /\ files' = v.fs.files
               /\ task' = [pc |-> "validated", options |-> options,
                           result |-> v.result.valid]
  /\ UNCHANGED <<call, prior, run, calc, registry>>

\* if (!validationResult.valid && autoFill && apiKey)
WantsAutoFill(t) == ~t.result /\ t.options.autoFill /\ t.options.apiKey

\* Step 4: await autoFillTranslations(projectRoot, {apiKey, limit, language,
\* dryRun, delayMs: 100})
ManageAutoFill ==
  /\ task.pc = "validated"
  /\ WantsAutoFill(task)
  /\ StartAutoFill([language |-> task.options.language, limit |-> task.options.limit,
                    concurrency |-> DefaultConcurrency,
                    dryRun |-> task.options.dryRun])
  /\ task' = [task EXCEPT !.pc = "autoFill"]

\* The rest of manageTranslations, from the return of autoFillTranslations
\* (or from step 3 where auto-fill is not run): the re-validation, and the
\* final validation that gives the result
ManageReturns ==
  /\ \/ task.pc = "autoFill" /\ run.pc = "returned"
     \/ task.pc = "validated" /\ ~WantsAutoFill(task)
  /\ LET revalidation == IF task.pc = "autoFill" /\ ~task.options.dryRun
                           THEN validateTranslations(Disk, languages).fs ELSE Disk
         finalValidation == validateTranslations(revalidation, languages)
         final == task.options.autoFill /\ ~task.options.dryRun /\ task.options.apiKey
     IN /\ dirs' = IF final THEN finalValidation.fs.dirs ELSE revalidation.dirs
        /\ files' = IF final THEN finalValidation.fs.files ELSE revalidation.files
        /\ task' = [task EXCEPT !.pc = "returned",
                                !.result = IF final THEN finalValidation.result.valid
                                           ELSE task.result]
  /\ UNCHANGED <<call, prior, run, calc, registry>>

NextManage ==
  \/ \E options \in ManageTranslationsOptions : Manage(options)
  \/ ManageAutoFill
  \/ ManageReturns
  \/ ForLanguage
  \/ ForItem
  \/ AwaitRace
  \/ AwaitAll
  \/ \E c \in Started(run) : TranslateResolves(c)
  \/ \E c \in Started(run) : TranslateRejects(c)
  \/ \E c \in Started(run) : DelayElapsed(c)

SpecManage == InitManage /\ [][NextManage]_vars

\* ----------------------------------------------- claims on manageTranslations
\* validateTranslations(projectRoot).valid, were it called on the disk as it is
Valid(fs) == validateTranslations(fs, languages).result.valid

\* C22: once manageTranslations has returned and every translation call it
\* started has settled, the boolean it resolved to (exit status 0 for true, 1
\* for false) is the validity of the translations on disk.
C22_ResultIsValidityOfFinalDisk ==
  (/\ task.pc = "returned"
   /\ sourceLanguage \in dirs
   /\ \A c \in Started(run) : Settled(run, c))
    => task.result = Valid(Disk)

\* ======================================================= addTranslationKey
\* `task` is where addTranslationKey stands: its options, the disk it found,
\* the language of its loop and, across the await, the namespace object it
\* read before translating.
AddKeyOptions ==
  [namespace : {"common"}, key : TranslationKeys, value : SourceValues,
   autoTranslate : BOOLEAN, apiKey : BOOLEAN]

\* A source namespace with one key or none, and each target's file or not
AddKeyDisks ==
  LET none == [dirs |-> {}, files |-> <<>>]
      AddKeyTargetFiles ==
        {<<>>,
         <<[key |-> "HELLO", value |-> <<>>]>>,
         <<[key |-> "HELLO", value |-> <<" ">>]>>,
         <<[key |-> "HELLO", value |-> Translated]>>,
         <<[key |-> "GOODBYE", value |-> Translated]>>}
      With(fs, language, present, file) ==
        IF present THEN writeTranslation(fs, language, "common", file) ELSE fs
  IN {With(With(With(none, sourceLanguage, en[1], en[2]), "fr", fr[1], fr[2]),
           "es", es[1], es[2]) :
        en \in BOOLEAN \X {<<[key |-> "GOODBYE", value |-> <<"H", "e", "l", "l", "o">>]>>},
        fr \in BOOLEAN \X AddKeyTargetFiles,
        es \in BOOLEAN \X {<<>>, <<[key |-> "HELLO", value |-> Translated]>>}}

InitAddKey ==
  /\ \E fs \in AddKeyDisks : dirs = fs.dirs /\ files = fs.files
  /\ call = NoCall
  /\ prior = NoCall
  /\ run = NoRun
  /\ calc = NoCalc
  /\ registry = DefaultRegistry
  /\ task = NoTask

\* readTranslations(translationsPath, lang)[namespace], {} where there is none
ReadNamespace(fs, language, namespace) ==
  LET translations == readTranslations(fs, language)
  IN IF namespace \in DOMAIN translations THEN translations[namespace] ELSE <<>>

\* !translations[namespace][key]: the key is not there or its value is ''
Falsy(translations, key) == ~Defined(translations, key) \/ Get(translations, key) = <<>>

\* The plain mode's loop: '' is added where the key is not there
RECURSIVE AddEmpty(_, _, _, _)
AddEmpty(fs, otherLanguages, options, i) ==
  IF i > Len(otherLanguages) THEN fs
  ELSE LET targetTranslations == ReadNamespace(fs, otherLanguages[i], options.namespace)
       IN AddEmpty(
            IF Falsy(targetTranslations, options.key)
              THEN writeTranslation(fs, otherLanguages[i], options.namespace,
                                    sortKeys(Put(targetTranslations, options.key, <<>>)))
              ELSE fs,
            otherLanguages, options, i + 1)

\* addTranslationKey: the source language, and the other languages in the
\* plain mode
AddTranslationKey(options) ==
  /\ task.pc = "idle"
  /\ LET source == writeTranslation(Disk, sourceLanguage, options.namespace,
                     sortKeys(Put(ReadNamespace(Disk, sourceLanguage, options.namespace),
                                  options.key, options.value)))
         otherLanguages == SelectSeq(languages, LAMBDA lang : lang # sourceLanguage)
         auto == options.autoTranslate /\ options.apiKey
         fs == IF auto THEN source ELSE AddEmpty(source, otherLanguages, options, 1)
     IN /\ dirs' = fs.dirs
        /\ files' = fs.files
        /\ task' = [pc |-> IF auto THEN "language" ELSE "returned",
                    options |-> options, pre |-> Disk,
                    otherLanguages |-> otherLanguages, language |-> 1,
                    targetTranslations |-> <<>>]
  /\ UNCHANGED <<call, prior, run, calc, registry>>

\* The auto-translate loop up to `await translateText(...)`
AddKeyForLanguage ==
  /\ task.pc = "language"
  /\ IF task.language > Len(task.otherLanguages)
       THEN task' = [task EXCEPT !.pc = "returned"]
       ELSE LET targetTranslations ==
                  ReadNamespace(Disk, task.otherLanguages[task.language],
                                task.options.namespace)
            IN IF Falsy(targetTranslations, task.options.key)
                    \/ trim(Get(targetTranslations, task.options.key)) = <<>>
                 THEN task' = [task EXCEPT !.pc = "translating",
                                           !.targetTranslations = targetTranslations]
                 ELSE task' = [task EXCEPT !.language = @ + 1]
  /\ UNCHANGED <<dirs, files, call, prior, run, calc, registry>>

\* translateText resolves: the value is set in the object read before the
\* await and the file is written
AddKeyTranslated ==
  /\ task.pc = "translating"
  /\ LET fs == writeTranslation(Disk, task.otherLanguages[task.language],
                                task.options.namespace,
                                sortKeys(Put(task.targetTranslations, task.options.key,
                                             Translated)))
     IN /\ dirs' = fs.dirs
        /\ files' = fs.files
  /\ task' = [task EXCEPT !.pc = "delaying"]
  /\ UNCHANGED <<call, prior, run, calc, registry>>

\* translateText throws: catch (error) { console.error(...) }
AddKeyTranslationFailed ==
  /\ task.pc = "translating"
  /\ task' = [task EXCEPT !.pc = "language", !.language = @ + 1]
  /\ UNCHANGED <<dirs, files, call, prior, run, calc, registry>>

\* await new Promise((resolve) => setTimeout(resolve, 100))
AddKeyDelayElapsed ==
  /\ task.pc = "delaying"
  /\ task' = [task EXCEPT !.pc = "language", !.language = @ + 1]
  /\ UNCHANGED <<dirs, files, call, prior, run, calc, registry>>

NextAddKey ==
  \/ \E options \in AddKeyOptions : AddTranslationKey(options)
  \/ AddKeyForLanguage
  \/ AddKeyTranslated
  \/ AddKeyTranslationFailed
  \/ AddKeyDelayElapsed

SpecAddKey == InitAddKey /\ [][NextAddKey]_vars

\* ------------------------------------------------ claims on addTranslationKey
\* C23: once addTranslationKey has returned, the source namespace file holds
\* the key with the given value, the namespace file of every other language
\* holds the key, and a target value that was not blank is the one it was.
C23_KeyIsInEveryLanguage ==
  task.pc = "returned" =>
    /\ Entry(Disk, sourceLanguage, task.options.namespace, task.options.key)
         = <<task.options.value>>
    /\ \A language \in Targets :
         LET before == Entry(task.pre, language, task.options.namespace, task.options.key)
             after == Entry(Disk, language, task.options.namespace, task.options.key)
         IN /\ after # <<>>
            /\ (before # <<>> /\ trim(before[1]) # <<>>) => after = before

\* ------------------------------------------- further claims on sync's writes
\* The keys of the file are in sort order
Sorted(file) == file = sortKeys(file)

\* C24: every namespace file that a sync has written, a cleaned file or a
\* new placeholder, has its keys in lexicographic order.
C24_WrittenFilesAreSorted ==
  call.op = "sync" =>
    \A i \in 1..Len(call.written) : Sorted(files[call.written[i]])

\* C25 as stated: a sync that finds no source namespace returns empty lists
\* and leaves the disk, directories included, as it found it.
C25_NoSourceNoChange ==
  (call.op = "sync" /\ SourceNamespaces(call.pre) = {}) =>
    /\ call.syncResult = EmptySyncResult
    /\ Disk = call.pre

\* C25, amended: a sync that finds no source namespace returns empty lists and
\* writes, changes and deletes no file; it makes the directory of every
\* configured language that has none, and nothing else.
C25_NoSourceOnlyDirectories ==
  (call.op = "sync" /\ SourceNamespaces(call.pre) = {}) =>
    /\ call.syncResult = EmptySyncResult
    /\ call.written = <<>>
    /\ files = call.pre.files
    /\ dirs = call.pre.dirs \cup Languages

\* A sync found no source directory and a target file with a key in it, and
\* has made directories
C25_Witness ==
  /\ call.op = "sync"
  /\ sourceLanguage \notin call.pre.dirs
  /\ \E f \in DOMAIN call.pre.files : Len(call.pre.files[f]) > 0
  /\ dirs # call.pre.dirs
  /\ files = call.pre.files

\* ------------------------------------------ further claims on auto-fill
\* Every processor call started so far has settled
AllSettled == \A c \in DOMAIN run.calls : Settled(run, c)

\* C26: no update is lost.  Whatever the order in which the translations of
\* a saving run came back, once every call has settled the file of each
\* succeeded item holds the translated value under the item's key.
C26_NoUpdateLost ==
  (Running /\ ~run.options.dryRun /\ AllSettled) =>
    \A c \in Succeeded(run) : EntryOf(c) = <<Translated>>

\* Two calls of a saving run with two workers, for two keys of one file that
\* had neither, have both succeeded and all calls are settled
C26_Witness ==
  /\ Running
  /\ ~run.options.dryRun
  /\ run.options.concurrency = 2
  /\ AllSettled
  /\ \E c, d \in Succeeded(run) :
       /\ c # d
       /\ run.calls[c].item.language = run.calls[d].item.language
       /\ run.calls[c].item.namespace = run.calls[d].item.namespace
       /\ run.calls[c].item.key # run.calls[d].item.key
       /\ run.calls[c].before = <<>>
       /\ run.calls[d].before = <<>>
       /\ EntryOf(c) = <<Translated>>
       /\ EntryOf(d) = <<Translated>>

\* A saving run without a limit has returned, every call settled and succeeded
Converged ==
  /\ run.pc = "returned"
  /\ ~run.options.dryRun
  /\ run.options.limit = Infinity
  /\ AllSettled
  /\ Succeeded(run) = DOMAIN run.calls

\* C29: convergence.  After a saving run without a limit in which every
\* translation succeeded, once every call has settled validateTranslations
\* lists no missing and no empty key for the languages the run processed, and
\* is valid when the run processed every target language.
C29_ValidAfterAutoFill ==
  Converged =>
    LET v == validateTranslations(Disk, languages).result
    IN /\ \A i \in 1..Len(v.missing) :
            v.missing[i].language \notin Range(run.languagesToProcess)
       /\ \A i \in 1..Len(v.empty) :
            v.empty[i].language \notin Range(run.languagesToProcess)
       /\ run.options.language = Null => v.valid

\* A converged run over all languages found fr without a key and with an
\* empty one, filled both, and the translations are valid
C29_Witness ==
  /\ Converged
  /\ run.options.language = Null
  /\ \E c, d \in DOMAIN run.calls :
       /\ run.calls[c].item.type = "missing"
       /\ run.calls[d].item.type = "empty"
  /\ validateTranslations(Disk, languages).result.valid
  /\ ~validateTranslations(run.pre, languages).result.valid

\* ------------------------------------------ further claims on validation
\* Key t[3] of target file (t[1], t[2]) is a gap on disk fs: the file is not
\* there, or lacks the key, or holds a whitespace-only value for it
Gap(fs, t) ==
  LET entry == Entry(fs, t[1], t[2], t[3])
  IN entry = <<>> \/ Blank(entry[1])

\* C28: validateTranslations drops no gap.  Every (target language, source
\* namespace, source key) whose target file, on the disk the call found, was
\* not there, lacked the key or held a whitespace-only value for it is listed
\* exactly once in `missing` and `empty` taken together.
C28_EveryGapListedOnce ==
  call.op = "validate" =>
    \A t \in Triples(call.pre) :
      Gap(call.pre, t) =>
        Entries(call.result.missing, t[1], t[2], t[3])
          + Entries(call.result.empty, t[1], t[2], t[3]) = 1

\* A validation found a target without the file of a source key, a target
\* file without a source key, and a target with a whitespace-only value
C28_Witness ==
  /\ call.op = "validate"
  /\ \E t, u, v \in Triples(call.pre) :
       /\ ~existsSync(call.pre, t[1], t[2])
       /\ existsSync(call.pre, u[1], u[2])
       /\ Entry(call.pre, u[1], u[2], u[3]) = <<>>
       /\ Entry(call.pre, v[1], v[2], v[3]) # <<>>
       /\ Len(Entry(call.pre, v[1], v[2], v[3])[1]) > 0
       /\ Gap(call.pre, v)
       /\ \A w \in {t, u, v} :
            Entries(call.result.missing, w[1], w[2], w[3])
              + Entries(call.result.empty, w[1], w[2], w[3]) = 1

\* ====================================================== the engine's calls
\* syncTranslationStructure, validateTranslations and autoFillTranslations
\* called one after the other, in any order, on the disks of the auto-fill.
\* `language` may be any configured language, the source language included.
EngineOptions ==
  [language : {Null} \cup Languages,
   limit : {1, Infinity},
   concurrency : {MaxConcurrency},
   dryRun : BOOLEAN]

\* syncTranslationStructure, called while no autoFillTranslations is under way
EngineSync == run.pc \in {"idle", "returned"} /\ Sync

\* validateTranslations, called while no autoFillTranslations is under way
EngineValidate == run.pc \in {"idle", "returned"} /\ Validate

NextEngine ==
  \/ EngineSync
  \/ EngineValidate
  \/ \E options \in EngineOptions : AutoFill(options)
  \/ NextFill

SpecEngine == InitFill /\ [][NextEngine]_vars

\* The source language's namespace files, with their contents
SourceFiles(fs) ==
  [f \in {g \in DOMAIN fs.files : g[1] = sourceLanguage} |-> fs.files[f]]

\* C27: no step of syncTranslationStructure, validateTranslations or
\* autoFillTranslations, whatever the `language` option, adds, removes or
\* changes a namespace file of the source language.
C27_SourceIsNeverModified ==
  [][SourceFiles(Disk)' = SourceFiles(Disk)]_vars

\* An auto-fill asked for the source language has returned, having changed
\* the disk, a validation has run after it, and the source is as it was
C27_Witness ==
  /\ run.pc = "returned"
  /\ run.options.language = sourceLanguage
  /\ ~run.options.dryRun
  /\ Disk # run.pre
  /\ call.op = "validate"
  /\ SourceFiles(Disk) = SourceFiles(run.pre)
  /\ SourceFiles(Disk) # <<>>

\* ======================================================= language fallback
\* resolveLanguageWithFallback applied to a language code.  Codes are strings;
\* toLowerCase and split('_') are computed character by character.
LANGUAGE_FALLBACK_MAP ==
  "de_at" :> <<"de">> @@
  "de_ch" :> <<"de">> @@
  "de_de" :> <<"de">> @@
  "en_gb" :> <<"en">> @@
  "en_us" :> <<"en">> @@
  "en_au" :> <<"en">> @@
  "en_ca" :> <<"en">> @@
  "en_nz" :> <<"en">> @@
  "zh_hk" :> <<"zh_hant", "zh">> @@
  "zh_tw" :> <<"zh_hant", "zh">> @@
  "zh_mo" :> <<"zh_hant", "zh">> @@
  "zh_cn" :> <<"zh_hans", "zh">> @@
  "zh_sg" :> <<"zh_hans", "zh">> @@
  "pt_pt" :> <<"pt">> @@
  "pt_ao" :> <<"pt">> @@
  "pt_mz" :> <<"pt">> @@
  "es_mx" :> <<"es_419", "es">> @@
  "es_ar" :> <<"es_419", "es">> @@
  "es_co" :> <<"es_419", "es">> @@
  "es_cl" :> <<"es_419", "es">> @@
  "es_pe" :> <<"es_419", "es">> @@
  "es_ve" :> <<"es_419", "es">> @@
  "es_ec" :> <<"es_419", "es">> @@
  "es_gt" :> <<"es_419", "es">> @@
  "es_cu" :> <<"es_419", "es">> @@
  "es_do" :> <<"es_419", "es">> @@
  "es_hn" :> <<"es_419", "es">> @@
  "es_ni" :> <<"es_419", "es">> @@
  "es_sv" :> <<"es_419", "es">> @@
  "es_cr" :> <<"es_419", "es">> @@
  "es_pa" :> <<"es_419", "es">> @@
  "es_uy" :> <<"es_419", "es">> @@
  "es_py" :> <<"es_419", "es">> @@
  "es_bo" :> <<"es_419", "es">> @@
  "es_es" :> <<"es">> @@
  "fr_ca" :> <<"fr">> @@
  "fr_ch" :> <<"fr">> @@
  "fr_be" :> <<"fr">> @@
  "fr_fr" :> <<"fr">> @@
  "no" :> <<"nb">> @@
  "nn" :> <<"nb">> @@
  "it_ch" :> <<"it">> @@
  "nl_be" :> <<"nl">> @@
  "sv_fi" :> <<"sv">> @@
  "ar_ae" :> <<"ar">> @@
  "ar_sa" :> <<"ar">> @@
  "ar_eg" :> <<"ar">>

DEEPL_LANGUAGES ==
  <<
    "ar", "bg", "cs", "da", "de", "el", "en", "en_gb", "en_us", "es",
    "es_419", "et", "fi", "fr", "he", "hu", "id", "it", "ja", "ko", "lt",
    "lv", "nb", "nl", "pl", "pt", "pt_br", "pt_pt", "ro", "ru", "sk", "sl",
    "sv", "th", "tr", "uk", "vi", "zh", "zh_hans", "zh_hant"
  >>

GOOGLE_LANGUAGES ==
  <<
    "af", "sq", "am", "ar", "hy", "az", "eu", "be", "bn", "bs", "bg", "ca",
    "ceb", "zh", "zh_cn", "zh_tw", "co", "hr", "cs", "da", "nl", "en", "eo",
    "et", "fi", "fr", "fy", "gl", "ka", "de", "el", "gu", "ht", "ha", "haw",
    "he", "hi", "hmn", "hu", "is", "ig", "id", "ga", "it", "ja", "jv", "kn",
    "kk", "km", "rw", "ko", "ku", "ky", "lo", "la", "lv", "lt", "lb", "mk",
    "mg", "ms", "ml", "mt", "mi", "mr", "mn", "my", "ne", "no", "ny", "or",
    "ps", "fa", "pl", "pt", "pt_br", "pa", "ro", "ru", "sm", "gd", "sr", "st",
    "sn", "sd", "si", "sk", "sl", "so", "es", "su", "sw", "sv", "tl", "tg",
    "ta", "tt", "te", "th", "tr", "tk", "uk", "ur", "ug", "uz", "vi", "cy",
    "xh", "yi", "yo", "zu"
  >>

\* The own properties every object inherits from Object.prototype: a lookup
\* of one of them in an object literal finds a function or an object
ObjectPrototypeKeys ==
  {"constructor", "toString", "valueOf", "hasOwnProperty", "isPrototypeOf",
   "propertyIsEnumerable", "toLocaleString", "__proto__"}

\* language.toLowerCase()
RECURSIVE toLowerCase(_)
toLowerCase(s) ==
  IF Len(s) = 0 THEN s
  ELSE LET c == SubSeq(s, 1, 1)
           lower ==
             "A" :> "a" @@ "B" :> "b" @@ "C" :> "c" @@ "D" :> "d" @@ "E" :> "e" @@
             "F" :> "f" @@ "G" :> "g" @@ "H" :> "h" @@ "I" :> "i" @@ "J" :> "j" @@
             "K" :> "k" @@ "L" :> "l" @@ "M" :> "m" @@ "N" :> "n" @@ "O" :> "o" @@
             "P" :> "p" @@ "Q" :> "q" @@ "R" :> "r" @@ "S" :> "s" @@ "T" :> "t" @@
             "U" :> "u" @@ "V" :> "v" @@ "W" :> "w" @@ "X" :> "x" @@ "Y" :> "y" @@
             "Z" :> "z"
       IN (IF c \in DOMAIN lower THEN lower[c] ELSE c)
            \o toLowerCase(SubSeq(s, 2, Len(s)))

\* s.split('_')[0]
SplitFirst(s) ==
  LET at == {i \in 1..Len(s) : SubSeq(s, i, i) = "_"}
  IN IF at = {} THEN s
     ELSE SubSeq(s, 1, (CHOOSE i \in at : \A j \in at : i <= j) - 1)

getSupportedLanguagesForProvider(provider) ==
  CASE provider = "deepl" -> DEEPL_LANGUAGES
    [] provider = "google" -> GOOGLE_LANGUAGES
    [] OTHER -> <<>>

\* supportedLanguages.includes(language)
isLanguageSupported(language, supportedLanguages) ==
  language \in Range(supportedLanguages)

\* A result that is a return value
Returned(resolvedLanguage, usedFallback, originalLanguage, fallbackChain) ==
  [threw |-> FALSE, resolvedLanguage |-> resolvedLanguage,
   usedFallback |-> usedFallback, originalLanguage |-> originalLanguage,
   fallbackChain |-> fallbackChain]

\* for (const fallbackLang of fallbackChain): the index of the first supported
\* code of the chain, 0 if the loop ends without a return
RECURSIVE FirstSupported(_, _, _)
FirstSupported(fallbackChain, supportedLanguages, i) ==
  IF i > Len(fallbackChain) THEN 0
  ELSE IF isLanguageSupported(fallbackChain[i], supportedLanguages) THEN i
  ELSE FirstSupported(fallbackChain, supportedLanguages, i + 1)

\* Faulty variant: the base code is tried before the chain
TryFallbacks_BaseFirst(language, normalizedLanguage, supportedLanguages, fallbackChain) ==
  LET found == FirstSupported(fallbackChain, supportedLanguages, 1)
      baseLang == SplitFirst(normalizedLanguage)
  IN IF baseLang # normalizedLanguage
          /\ isLanguageSupported(baseLang, supportedLanguages)
       THEN Returned(baseLang, TRUE, language, <<normalizedLanguage, baseLang>>)
     ELSE IF found # 0
       THEN Returned(fallbackChain[found], TRUE, language,
                     <<normalizedLanguage>> \o fallbackChain)
     ELSE Returned(normalizedLanguage, FALSE, language, <<>>)

\* The statements after `if (!enableFallback)`, for a chain found in the map
\* or the [] that stands for none
TryFallbacks(language, normalizedLanguage, supportedLanguages, fallbackChain) ==
  LET found == FirstSupported(fallbackChain, supportedLanguages, 1)
      baseLang == SplitFirst(normalizedLanguage)
  IN IF found # 0
       THEN Returned(fallbackChain[found], TRUE, language,
                     <<normalizedLanguage>> \o fallbackChain)
     ELSE IF baseLang # normalizedLanguage
               /\ isLanguageSupported(baseLang, supportedLanguages)
       THEN Returned(baseLang, TRUE, language, <<normalizedLanguage, baseLang>>)
     ELSE Returned(normalizedLanguage, FALSE, language, <<>>)

\* The result; fallbackChain is <<>> where the code leaves it out.  A code
\* that names a property of Object.prototype finds that property in the map,
\* which is not iterable: the for...of throws a TypeError.
resolveLanguageWithFallback(language, provider, enableFallback) ==
  LET normalizedLanguage == toLowerCase(language)
      supportedLanguages == getSupportedLanguagesForProvider(provider)
  IN IF isLanguageSupported(normalizedLanguage, supportedLanguages)
       THEN Returned(normalizedLanguage, FALSE, language, <<>>)
     ELSE IF ~enableFallback
       THEN Returned(normalizedLanguage, FALSE, language, <<>>)
     ELSE IF normalizedLanguage \in DOMAIN LANGUAGE_FALLBACK_MAP
       THEN TryFallbacks(language, normalizedLanguage, supportedLanguages,
                         LANGUAGE_FALLBACK_MAP[normalizedLanguage])
     ELSE IF normalizedLanguage \in ObjectPrototypeKeys
       THEN [threw |-> TRUE]
     ELSE TryFallbacks(language, normalizedLanguage, supportedLanguages, <<>>)

\* The codes given: every code of the map, and codes in other cases, codes
\* the providers take, regional codes outside the map, unknown codes
FallbackLanguages ==
  DOMAIN LANGUAGE_FALLBACK_MAP
    \cup {"en", "EN", "fr", "pt_br", "pt_BR", "PT_PT", "zh_TW", "ZH_HK", "es_MX",
          "En_Gb", "nb", "NO", "es_419", "zh_hant", "zh_Hans", "de_lu", "DE_LU",
          "fr_lu", "ja_jp", "ceb_ph", "xx", "xx_yy", "tlh", "", "_", "_en",
          "en_", "constructor", "toString", "__proto__"}

InitFallback ==
  /\ dirs = {}
  /\ files = <<>>
  /\ call = NoCall
  /\ prior = NoCall
  /\ run = NoRun
  /\ registry = DefaultRegistry
  /\ task = NoTask
  /\ \E language \in FallbackLanguages, provider \in {"deepl", "google"},
        enableFallback \in BOOLEAN :
       calc = [op |-> "language", language |-> language, provider |-> provider,
               enableFallback |-> enableFallback]

ResolveLanguageWithFallback ==
  /\ calc.op = "language"
  /\ calc' = [op |-> "resolveLanguageWithFallback", language |-> calc.language,
              provider |-> calc.provider, enableFallback |-> calc.enableFallback,
              result |-> resolveLanguageWithFallback(calc.language, calc.provider,
                                                     calc.enableFallback)]
  /\ UNCHANGED <<dirs, files, call, prior, run, registry, task>>

NextFallback == ResolveLanguageWithFallback

SpecFallback == InitFallback /\ [][NextFallback]_vars

\* --------------------------------------------- claims on language fallback
\* resolveLanguageWithFallback has returned a result
Resolved == calc.op = "resolveLanguageWithFallback" /\ ~calc.result.threw

\* The code as the providers' lists spell it
LowerCased == toLowerCase(calc.language)

Supported(language) ==
  language \in Range(getSupportedLanguagesForProvider(calc.provider))

\* The codes to try for a code: its chain in the map, then its part before
\* the first '_' where that is not the code itself
Candidates(language) ==
  LET chain == IF language \in DOMAIN LANGUAGE_FALLBACK_MAP
                 THEN LANGUAGE_FALLBACK_MAP[language] ELSE <<>>
      base == SplitFirst(language)
  IN chain \o (IF base # language THEN <<base>> ELSE <<>>)

\* C30: a result with usedFallback = true names a code of the provider's list
\* other than the lower-cased code given; a lower-cased code that is in the
\* list, or enableFallback = false, gives the lower-cased code back with
\* usedFallback = false; and with fallback on, the result of an unsupported
\* code is the first supported one of its chain followed by its base code,
\* or the lower-cased code itself, usedFallback = false, where none is.
C30_FallbackResolvesInChainOrder ==
  Resolved =>
    LET result == calc.result
        candidates == Candidates(LowerCased)
        supported == {i \in 1..Len(candidates) : Supported(candidates[i])}
    IN /\ result.usedFallback =>
            /\ Supported(result.resolvedLanguage)
            /\ result.resolvedLanguage # LowerCased
       /\ (Supported(LowerCased) \/ ~calc.enableFallback) =>
            /\ result.resolvedLanguage = LowerCased
            /\ ~result.usedFallback
       /\ (~Supported(LowerCased) /\ calc.enableFallback) =>
            IF supported = {}
              THEN result.resolvedLanguage = LowerCased /\ ~result.usedFallback
              ELSE /\ result.usedFallback
                   /\ result.resolvedLanguage
                        = candidates[CHOOSE i \in supported :
                                       \A j \in supported : i <= j]

\* A code given in upper case whose chain has an unsupported code before a
\* supported one, and whose base code is supported too, resolved to the
\* supported code of the chain
C30_Witness ==
  /\ Resolved
  /\ calc.language # LowerCased
  /\ calc.result.usedFallback
  /\ LowerCased \in DOMAIN LANGUAGE_FALLBACK_MAP
  /\ ~Supported(LANGUAGE_FALLBACK_MAP[LowerCased][1])
  /\ calc.result.resolvedLanguage = LANGUAGE_FALLBACK_MAP[LowerCased][2]
  /\ Supported(SplitFirst(LowerCased))

====
